---------------------------- MODULE Spec2Model ----------------------------
(***************************************************************************)
(* A model of unzip-notion: the name/URL/link/content repair functions of  *)
(* unzip-notion.py, the weight assigner of weights.py and the helpers of   *)
(* utils.py.                                                               *)
(*                                                                         *)
(* A byte string is a sequence of one-byte tokens: <<"a", "%", "2", "0">>. *)
(* A byte that is not printable ASCII is written as one token "xNN" with   *)
(* its two hexadecimal digits, e.g. "xc3" (so are the backslash, "x5c",    *)
(* and the backquote, "x60"); tab, LF, CR and FF are "\t", "\n", "\r", "\f". *)
(***************************************************************************)
EXTENDS Integers, Sequences, FiniteSets, TLC

VARIABLES
    \* ---- repair_url_part, applied repeatedly to one value
    url_part,       \* the current byte string
    url_prev,       \* the byte string before the last application
    url_calls,      \* how many times repair_url_part was applied
    \* ---- one call of repair_link
    link_name,      \* link_match.group("name")
    link_url,       \* link_match.group("url")
    link_old,       \* old_link_prefix
    link_parents,   \* parent_link_prefixes
    link_prefix,    \* url_prefix
    link_md,        \* md_link
    link_out,       \* the returned bytes
    link_pc,        \* "call" before the call, "done" after it
    \* ---- one call of repair_content
    cr_content,     \* content: the bytes of the source document
    cr_src,         \* src: the path of the source document
    cr_dirs,        \* resource_dir_names
    cr_out,         \* what the call computed (title, slug, tags, body, passes)
    cr_tag_order,   \* the order in which the tag set was iterated for the header
    cr_pc,          \* "call" before the call, "done" after it, "again" after a second one
    \* ---- a run on the hugo directory
    fs,             \* the tree below the hugo directory
    fs_before,      \* the tree as it was before the last call of set_weights
    g_exit_status,  \* g_exit_status of utils.py
    log,            \* the records the logger got
    runs,           \* how many calls of set_weights have returned
    run_pc,         \* where the run is: "main", "tags", "main_weights", "done" or
                    \* "failed"; "weights" when set_weights is called on its own
    src_fs,         \* the tree below the input directory
    force,          \* --force
    dm,             \* --dm
    cwd_dirs,       \* the names that are directories in the working directory
    error,          \* "none", or the exception that ended the run
    writes,         \* the file writes of the run
    g_dm_tags,      \* g_dm_tags of unzip-notion.py
    g_all_dm_tags,  \* g_all_dm_tags of unzip-notion.py
    visited,        \* the source entries the walker has looked at, in order
    \* ---- one call of repair_name
    name_in,        \* the name given to repair_name
    name_out,       \* the returned bytes
    name_pc         \* "call" before the call, "done" after it

urlVars == <<url_part, url_prev, url_calls>>
linkVars == <<link_name, link_url, link_old, link_parents, link_prefix,
              link_md, link_out, link_pc>>
contentVars == <<cr_content, cr_src, cr_dirs, cr_out, cr_tag_order, cr_pc>>
runVars == <<fs, fs_before, g_exit_status, log, runs, run_pc,
             src_fs, force, dm, cwd_dirs, error, writes, g_dm_tags, g_all_dm_tags,
             visited>>
nameVars == <<name_in, name_out, name_pc>>
vars == <<urlVars, linkVars, contentVars, runVars, nameVars>>
notUrlVars == <<linkVars, contentVars, runVars, nameVars>>
notLinkVars == <<urlVars, contentVars, runVars, nameVars>>
notContentVars == <<urlVars, linkVars, runVars, nameVars>>
notRunVars == <<urlVars, linkVars, contentVars, nameVars>>
notNameVars == <<urlVars, linkVars, contentVars, runVars>>

(***************************************************************************)
(* Bounds of the model.                                                    *)
(***************************************************************************)
MaxChunks == 3
MaxCalls == 2
MaxLinkChunks == 2
MaxContentChunks == 2
MaxIndexLinks == 2
MaxRuns == 2
MaxNameChunks == 3
MaxSiblings == 99

(***************************************************************************)
(* Python's bytes primitives, as the code uses them.                       *)
(***************************************************************************)
RECURSIVE Cat(_)
Cat(ss) == IF ss = <<>> THEN <<>> ELSE Head(ss) \o Cat(Tail(ss))

StartsWithAt(s, i, p) ==
    /\ i + Len(p) - 1 <= Len(s)
    /\ \A k \in 1..Len(p) : s[i + k - 1] = p[k]

EndsWith(s, p) ==
    /\ Len(p) <= Len(s)
    /\ \A k \in 1..Len(p) : s[Len(s) - Len(p) + k] = p[k]

\* the least element of a non-empty set of positions
Min(S) == CHOOSE k \in S : \A j \in S : k <= j

\* the first position >= i where p occurs in s, or 0
NextOcc(s, i, p) ==
    LET occ == { k \in i..(Len(s) - Len(p) + 1) : StartsWithAt(s, k, p) }
    IN  IF occ = {} THEN 0 ELSE Min(occ)

\* bytes.replace(old, new): left to right, non-overlapping, one pass
RECURSIVE ReplaceFrom(_, _, _, _)
ReplaceFrom(s, i, old, new) ==
    LET k == NextOcc(s, i, old)
    IN  IF k = 0 THEN SubSeq(s, i, Len(s))
        ELSE SubSeq(s, i, k - 1) \o new \o ReplaceFrom(s, k + Len(old), old, new)

bytes_replace(s, old, new) == ReplaceFrom(s, 1, old, new)

\* bytes.split(sep) for a one-byte separator: empty words are kept
RECURSIVE SplitFrom(_, _, _)
SplitFrom(s, i, c) ==
    LET k == NextOcc(s, i, <<c>>)
    IN  IF k = 0 THEN << SubSeq(s, i, Len(s)) >>
        ELSE << SubSeq(s, i, k - 1) >> \o SplitFrom(s, k + 1, c)

bytes_split(s, c) == SplitFrom(s, 1, c)

\* sep.join(words)
RECURSIVE bytes_join(_, _)
bytes_join(words, sep) ==
    IF words = <<>> THEN <<>>
    ELSE IF Len(words) = 1 THEN words[1]
    ELSE words[1] \o sep \o bytes_join(Tail(words), sep)

removesuffix(s, p) ==
    IF p # <<>> /\ EndsWith(s, p) THEN SubSeq(s, 1, Len(s) - Len(p)) ELSE s

removeprefix(s, p) ==
    IF p # <<>> /\ StartsWithAt(s, 1, p) THEN SubSeq(s, Len(p) + 1, Len(s)) ELSE s

UpperToLower ==
    ("A" :> "a") @@ ("B" :> "b") @@ ("C" :> "c") @@ ("D" :> "d") @@
    ("E" :> "e") @@ ("F" :> "f") @@ ("G" :> "g") @@ ("H" :> "h") @@
    ("I" :> "i") @@ ("J" :> "j") @@ ("K" :> "k") @@ ("L" :> "l") @@
    ("M" :> "m") @@ ("N" :> "n") @@ ("O" :> "o") @@ ("P" :> "p") @@
    ("Q" :> "q") @@ ("R" :> "r") @@ ("S" :> "s") @@ ("T" :> "t") @@
    ("U" :> "u") @@ ("V" :> "v") @@ ("W" :> "w") @@ ("X" :> "x") @@
    ("Y" :> "y") @@ ("Z" :> "z")

\* bytes.lower(): only the ASCII letters A-Z change
bytes_lower(s) ==
    [i \in 1..Len(s) |->
        IF s[i] \in DOMAIN UpperToLower THEN UpperToLower[s[i]] ELSE s[i]]

Digits == {"0", "1", "2", "3", "4", "5", "6", "7", "8", "9"}
LowerLetters == {UpperToLower[c] : c \in DOMAIN UpperToLower}

(***************************************************************************)
(* repair_url_part                                                         *)
(***************************************************************************)
HashLen == 32

\* the class [0-9a-z] of both hash patterns
HashChar(c) == c \in Digits \cup LowerLetters

\* MARKDOWN_HASH_SUFFIX_PATTERN = %20[0-9a-z]{32}, matched at position i
MARKDOWN_HASH_SUFFIX_PATTERN(s, i) ==
    /\ StartsWithAt(s, i, <<"%", "2", "0">>)
    /\ i + 2 + HashLen <= Len(s)
    /\ \A k \in 1..HashLen : HashChar(s[i + 2 + k])

\* the first match of the pattern at or after position i, or 0
NextHash(s, i) ==
    LET occ == { k \in i..Len(s) : MARKDOWN_HASH_SUFFIX_PATTERN(s, k) }
    IN  IF occ = {} THEN 0 ELSE Min(occ)

\* re.sub(MARKDOWN_HASH_SUFFIX_PATTERN, b"", s)
RECURSIVE SubHashFrom(_, _)
SubHashFrom(s, i) ==
    LET k == NextHash(s, i)
    IN  IF k = 0 THEN SubSeq(s, i, Len(s))
        ELSE SubSeq(s, i, k - 1) \o SubHashFrom(s, k + 3 + HashLen)

\* the ordered literal substitutions of repair_url_part
UrlSubstitutions ==
    << <<(<<"%", "2", "0">>), (<<" ">>)>>,
       <<(<<"e", "%", "c", "c", "%", "8", "1">>), (<<"e">>)>>,
       <<(<<"%", "e", "2", "%", "8", "0", "%", "9", "9">>), (<<"_">>)>>,
       <<(<<"&">>), (<<"e", "t">>)>>,
       <<(<<",">>), (<<"_">>)>> >>

RECURSIVE ApplySubstitutions(_, _)
ApplySubstitutions(s, subs) ==
    IF subs = <<>> THEN s
    ELSE ApplySubstitutions(bytes_replace(s, subs[1][1], subs[1][2]), Tail(subs))

\* the filter of the last line: the words that are not a lone dash
NotLoneDash(word) == word # <<"-">>

repair_url_part(s) ==
    LET stripped == SubHashFrom(s, 1)
        lowered  == bytes_lower(stripped)
        replaced == ApplySubstitutions(lowered, UrlSubstitutions)
        url_words == bytes_split(replaced, " ")
    IN  bytes_join(SelectSeq(url_words, NotLoneDash), <<"-">>)

(***************************************************************************)
(* Inputs: byte strings made of up to MaxChunks chunks.                    *)
(***************************************************************************)
Hash32 == [i \in 1..HashLen |-> IF i % 2 = 0 THEN "a" ELSE "0"]

UrlChunks ==
    { <<" ">>, <<"-">>, <<"a">>, <<"B">>, <<"&">>, <<",">>,
      <<"%", "2", "0">>,
      <<"e", "%", "c", "c", "%", "8", "1">>,
      <<"%", "c", "c", "%", "8", "1">>,
      <<"%", "e", "2", "%", "8", "0", "%", "9", "9">>,
      Hash32 }

RECURSIVE ChunkStrings(_, _)
ChunkStrings(chunks, n) ==
    IF n = 0 THEN { <<>> }
    ELSE LET shorter == ChunkStrings(chunks, n - 1)
         IN  shorter \cup { s \o c : s \in shorter, c \in chunks }

UrlInputs == ChunkStrings(UrlChunks, MaxChunks)

UrlStart ==
    /\ url_part \in UrlInputs
    /\ url_prev = <<>>
    /\ url_calls = 0

UrlIdle ==
    /\ url_part = <<>>
    /\ url_prev = <<>>
    /\ url_calls = 0

\* one more application of repair_url_part to the value at hand
RepairUrlPart ==
    /\ url_calls < MaxCalls
    /\ url_prev' = url_part
    /\ url_part' = repair_url_part(url_part)
    /\ url_calls' = url_calls + 1
    /\ UNCHANGED notUrlVars

(***************************************************************************)
(* repair_link                                                             *)
(***************************************************************************)
MD == <<".", "m", "d">>
DOTDOT == <<".", ".">>
SLASH == <<"/">>

\* bytes outside ASCII: urlparse decodes its bytes argument as ASCII
NonAscii ==
    {
      "x80", "x81", "x82", "x83", "x84", "x85", "x86", "x87", "x88", "x89", "x8a", "x8b",
      "x8c", "x8d", "x8e", "x8f", "x90", "x91", "x92", "x93", "x94", "x95", "x96", "x97",
      "x98", "x99", "x9a", "x9b", "x9c", "x9d", "x9e", "x9f", "xa0", "xa1", "xa2", "xa3",
      "xa4", "xa5", "xa6", "xa7", "xa8", "xa9", "xaa", "xab", "xac", "xad", "xae", "xaf",
      "xb0", "xb1", "xb2", "xb3", "xb4", "xb5", "xb6", "xb7", "xb8", "xb9", "xba", "xbb",
      "xbc", "xbd", "xbe", "xbf", "xc0", "xc1", "xc2", "xc3", "xc4", "xc5", "xc6", "xc7",
      "xc8", "xc9", "xca", "xcb", "xcc", "xcd", "xce", "xcf", "xd0", "xd1", "xd2", "xd3",
      "xd4", "xd5", "xd6", "xd7", "xd8", "xd9", "xda", "xdb", "xdc", "xdd", "xde", "xdf",
      "xe0", "xe1", "xe2", "xe3", "xe4", "xe5", "xe6", "xe7", "xe8", "xe9", "xea", "xeb",
      "xec", "xed", "xee", "xef", "xf0", "xf1", "xf2", "xf3", "xf4", "xf5", "xf6", "xf7",
      "xf8", "xf9", "xfa", "xfb", "xfc", "xfd", "xfe", "xff" }

\* urlsplit drops leading blanks and every tab, CR and LF before it parses
RECURSIVE LStripBlank(_)
LStripBlank(s) ==
    IF s # <<>> /\ Head(s) \in {" ", "\t", "\r", "\n"} THEN LStripBlank(Tail(s)) ELSE s

NotUnsafe(c) == c \notin {"\t", "\r", "\n"}

UrlClean(url) == SelectSeq(LStripBlank(url), NotUnsafe)

\* the position of the first byte of s that is in set, or 0
FirstIn(s, set) ==
    IF \E i \in 1..Len(s) : s[i] \in set
    THEN CHOOSE i \in 1..Len(s) : s[i] \in set /\ \A j \in 1..(i - 1) : s[j] \notin set
    ELSE 0

SchemeChars == LowerLetters \cup DOMAIN UpperToLower \cup Digits \cup {"+", "-", "."}

\* the end of the scheme of a cleaned url (the position of its colon), or 0
SchemeEnd(u) ==
    LET i == FirstIn(u, {":"})
    IN  IF /\ i > 1
           /\ u[1] \in LowerLetters \cup DOMAIN UpperToLower
           /\ \A k \in 1..(i - 1) : u[k] \in SchemeChars
        THEN i ELSE 0

\* urllib.parse.urlparse(url): its scheme and netloc
urlparse(url) ==
    LET u    == UrlClean(url)
        i    == SchemeEnd(u)
        rest == SubSeq(u, i + 1, Len(u))
        d    == FirstIn(SubSeq(rest, 3, Len(rest)), {"/", "?", "#"})
    IN  [scheme |-> bytes_lower(SubSeq(u, 1, i - 1)),
         netloc |-> IF StartsWithAt(rest, 1, <<"/", "/">>)
                    THEN IF d = 0 THEN SubSeq(rest, 3, Len(rest))
                         ELSE SubSeq(rest, 3, d + 1)
                    ELSE <<>>]

\* the try/else of repair_link: a UnicodeDecodeError means "not absolute"
NoSchemeOrNetloc(url) ==
    \/ \E k \in 1..Len(url) : url[k] \in NonAscii
    \/ urlparse(url).scheme = <<>>
    \/ urlparse(url).netloc = <<>>

HasSchemeAndNetloc(url) == ~NoSchemeOrNetloc(url)

\* link_match.group(0) of either link pattern
group0(name, url) == <<"[">> \o name \o <<"]", "(">> \o url \o <<")">>

InList(x, list) == \E i \in 1..Len(list) : list[i] = x

DropMdSuffix(url, md_link) == IF md_link THEN removesuffix(url, MD) ELSE url

\* (a variant that tests the parent prefixes before the own prefix)
RebuildParts_parentFirst(parts, old_link_prefix, parent_link_prefixes) ==
    IF parts = <<>> THEN parts
    ELSE IF parts[1] = DOTDOT \/ InList(parts[1], parent_link_prefixes)
         THEN <<DOTDOT>> \o parts
    ELSE IF parts[1] = old_link_prefix THEN Tail(parts)
         ELSE parts

\* (a variant that forgets the literal ".." segment)
RebuildParts_noDotDot(parts, old_link_prefix, parent_link_prefixes) ==
    IF parts = <<>> THEN parts
    ELSE IF parts[1] = old_link_prefix THEN Tail(parts)
    ELSE IF InList(parts[1], parent_link_prefixes)
         THEN <<DOTDOT>> \o parts
         ELSE parts

\* "Rebuild new url": pop the own prefix, else mark a parent
RebuildParts(parts, old_link_prefix, parent_link_prefixes) ==
    IF parts = <<>> THEN parts
    ELSE IF parts[1] = old_link_prefix THEN Tail(parts)
    ELSE IF parts[1] = DOTDOT \/ InList(parts[1], parent_link_prefixes)
         THEN <<DOTDOT>> \o parts
         ELSE parts

\* list(map(repair_url_part, parts))
RepairParts(parts) == [i \in 1..Len(parts) |-> repair_url_part(parts[i])]

\* (a variant without the early return for absolute urls)
repair_link_noEarlyReturn(name, url, old_link_prefix, parent_link_prefixes, url_prefix, md_link) ==
    LET url_parts == bytes_split(removeprefix(DropMdSuffix(url, md_link), SLASH), "/")
        new_url_parts == RebuildParts(RepairParts(url_prefix \o url_parts),
                                      old_link_prefix, parent_link_prefixes)
    IN  group0(name, bytes_join(new_url_parts, SLASH))

repair_link(name, url, old_link_prefix, parent_link_prefixes, url_prefix, md_link) ==
    IF HasSchemeAndNetloc(url) THEN group0(name, url)
    ELSE LET url_parts == bytes_split(removeprefix(DropMdSuffix(url, md_link), SLASH), "/")
             new_url_parts == RebuildParts(RepairParts(url_prefix \o url_parts),
                                           old_link_prefix, parent_link_prefixes)
         IN  group0(name, bytes_join(new_url_parts, SLASH))

(***************************************************************************)
(* Calls of repair_link: the url is a body of up to MaxLinkChunks chunks   *)
(* followed by the extension its pattern asks for (".md" for a document    *)
(* link, another extension for a resource link).                           *)
(***************************************************************************)
FOO == <<"f", "o", "o">>
SIB == <<"s", "i", "b">>
PNG == <<".", "p", "n", "g">>

LinkChunks ==
    { FOO, <<"f", "o", "o", "/">>, <<"S", "i", "b", "/">>, <<".", ".", "/">>,
      <<"b", "%", "2", "0", "c">>, <<"h", "t", "t", "p", ":">>, <<"/", "/">> }

LinkBodies == ChunkStrings(LinkChunks, MaxLinkChunks)

LinkNames == { <<"x">>, <<"N", " ", "m">> }

LinkStart ==
    /\ link_name \in LinkNames
    /\ link_md \in BOOLEAN
    /\ \E body \in LinkBodies : link_url = body \o (IF link_md THEN MD ELSE PNG)
    /\ link_old \in { FOO, SIB }
    /\ link_parents \in { <<>>, <<SIB>>, <<FOO, SIB>> }
    /\ link_prefix \in { <<>>, <<(<<"S", "i", "b">>)>> }
    /\ link_out = <<>>
    /\ link_pc = "call"

LinkIdle ==
    /\ link_name = <<>>
    /\ link_md = FALSE
    /\ link_url = <<>>
    /\ link_old = <<>>
    /\ link_parents = <<>>
    /\ link_prefix = <<>>
    /\ link_out = <<>>
    /\ link_pc = "idle"

\* one call of repair_link on the match at hand
RepairLink ==
    /\ link_pc = "call"
    /\ link_out' = repair_link(link_name, link_url, link_old, link_parents,
                               link_prefix, link_md)
    /\ link_pc' = "done"
    /\ UNCHANGED <<link_name, link_url, link_old, link_parents, link_prefix, link_md>>
    /\ UNCHANGED notLinkVars

(***************************************************************************)
(* urllib.parse.quote_from_bytes and unquote_to_bytes.  ByteHex gives the  *)
(* two upper-case hexadecimal digits of every byte.                        *)
(***************************************************************************)
ByteHex ==
    ("x00" :> <<"0", "0">>) @@ ("x01" :> <<"0", "1">>) @@ ("x02" :> <<"0", "2">>) @@ ("x03" :> <<"0", "3">>) @@
    ("x04" :> <<"0", "4">>) @@ ("x05" :> <<"0", "5">>) @@ ("x06" :> <<"0", "6">>) @@ ("x07" :> <<"0", "7">>) @@
    ("x08" :> <<"0", "8">>) @@ ("\t" :> <<"0", "9">>) @@ ("\n" :> <<"0", "A">>) @@ ("x0b" :> <<"0", "B">>) @@
    ("\f" :> <<"0", "C">>) @@ ("\r" :> <<"0", "D">>) @@ ("x0e" :> <<"0", "E">>) @@ ("x0f" :> <<"0", "F">>) @@
    ("x10" :> <<"1", "0">>) @@ ("x11" :> <<"1", "1">>) @@ ("x12" :> <<"1", "2">>) @@ ("x13" :> <<"1", "3">>) @@
    ("x14" :> <<"1", "4">>) @@ ("x15" :> <<"1", "5">>) @@ ("x16" :> <<"1", "6">>) @@ ("x17" :> <<"1", "7">>) @@
    ("x18" :> <<"1", "8">>) @@ ("x19" :> <<"1", "9">>) @@ ("x1a" :> <<"1", "A">>) @@ ("x1b" :> <<"1", "B">>) @@
    ("x1c" :> <<"1", "C">>) @@ ("x1d" :> <<"1", "D">>) @@ ("x1e" :> <<"1", "E">>) @@ ("x1f" :> <<"1", "F">>) @@
    (" " :> <<"2", "0">>) @@ ("!" :> <<"2", "1">>) @@ ("\"" :> <<"2", "2">>) @@ ("#" :> <<"2", "3">>) @@
    ("$" :> <<"2", "4">>) @@ ("%" :> <<"2", "5">>) @@ ("&" :> <<"2", "6">>) @@ ("'" :> <<"2", "7">>) @@
    ("(" :> <<"2", "8">>) @@ (")" :> <<"2", "9">>) @@ ("*" :> <<"2", "A">>) @@ ("+" :> <<"2", "B">>) @@
    ("," :> <<"2", "C">>) @@ ("-" :> <<"2", "D">>) @@ ("." :> <<"2", "E">>) @@ ("/" :> <<"2", "F">>) @@
    ("0" :> <<"3", "0">>) @@ ("1" :> <<"3", "1">>) @@ ("2" :> <<"3", "2">>) @@ ("3" :> <<"3", "3">>) @@
    ("4" :> <<"3", "4">>) @@ ("5" :> <<"3", "5">>) @@ ("6" :> <<"3", "6">>) @@ ("7" :> <<"3", "7">>) @@
    ("8" :> <<"3", "8">>) @@ ("9" :> <<"3", "9">>) @@ (":" :> <<"3", "A">>) @@ (";" :> <<"3", "B">>) @@
    ("<" :> <<"3", "C">>) @@ ("=" :> <<"3", "D">>) @@ (">" :> <<"3", "E">>) @@ ("?" :> <<"3", "F">>) @@
    ("@" :> <<"4", "0">>) @@ ("A" :> <<"4", "1">>) @@ ("B" :> <<"4", "2">>) @@ ("C" :> <<"4", "3">>) @@
    ("D" :> <<"4", "4">>) @@ ("E" :> <<"4", "5">>) @@ ("F" :> <<"4", "6">>) @@ ("G" :> <<"4", "7">>) @@
    ("H" :> <<"4", "8">>) @@ ("I" :> <<"4", "9">>) @@ ("J" :> <<"4", "A">>) @@ ("K" :> <<"4", "B">>) @@
    ("L" :> <<"4", "C">>) @@ ("M" :> <<"4", "D">>) @@ ("N" :> <<"4", "E">>) @@ ("O" :> <<"4", "F">>) @@
    ("P" :> <<"5", "0">>) @@ ("Q" :> <<"5", "1">>) @@ ("R" :> <<"5", "2">>) @@ ("S" :> <<"5", "3">>) @@
    ("T" :> <<"5", "4">>) @@ ("U" :> <<"5", "5">>) @@ ("V" :> <<"5", "6">>) @@ ("W" :> <<"5", "7">>) @@
    ("X" :> <<"5", "8">>) @@ ("Y" :> <<"5", "9">>) @@ ("Z" :> <<"5", "A">>) @@ ("[" :> <<"5", "B">>) @@
    ("x5c" :> <<"5", "C">>) @@ ("]" :> <<"5", "D">>) @@ ("^" :> <<"5", "E">>) @@ ("_" :> <<"5", "F">>) @@
    ("x60" :> <<"6", "0">>) @@ ("a" :> <<"6", "1">>) @@ ("b" :> <<"6", "2">>) @@ ("c" :> <<"6", "3">>) @@
    ("d" :> <<"6", "4">>) @@ ("e" :> <<"6", "5">>) @@ ("f" :> <<"6", "6">>) @@ ("g" :> <<"6", "7">>) @@
    ("h" :> <<"6", "8">>) @@ ("i" :> <<"6", "9">>) @@ ("j" :> <<"6", "A">>) @@ ("k" :> <<"6", "B">>) @@
    ("l" :> <<"6", "C">>) @@ ("m" :> <<"6", "D">>) @@ ("n" :> <<"6", "E">>) @@ ("o" :> <<"6", "F">>) @@
    ("p" :> <<"7", "0">>) @@ ("q" :> <<"7", "1">>) @@ ("r" :> <<"7", "2">>) @@ ("s" :> <<"7", "3">>) @@
    ("t" :> <<"7", "4">>) @@ ("u" :> <<"7", "5">>) @@ ("v" :> <<"7", "6">>) @@ ("w" :> <<"7", "7">>) @@
    ("x" :> <<"7", "8">>) @@ ("y" :> <<"7", "9">>) @@ ("z" :> <<"7", "A">>) @@ ("{" :> <<"7", "B">>) @@
    ("|" :> <<"7", "C">>) @@ ("}" :> <<"7", "D">>) @@ ("~" :> <<"7", "E">>) @@ ("x7f" :> <<"7", "F">>) @@
    ("x80" :> <<"8", "0">>) @@ ("x81" :> <<"8", "1">>) @@ ("x82" :> <<"8", "2">>) @@ ("x83" :> <<"8", "3">>) @@
    ("x84" :> <<"8", "4">>) @@ ("x85" :> <<"8", "5">>) @@ ("x86" :> <<"8", "6">>) @@ ("x87" :> <<"8", "7">>) @@
    ("x88" :> <<"8", "8">>) @@ ("x89" :> <<"8", "9">>) @@ ("x8a" :> <<"8", "A">>) @@ ("x8b" :> <<"8", "B">>) @@
    ("x8c" :> <<"8", "C">>) @@ ("x8d" :> <<"8", "D">>) @@ ("x8e" :> <<"8", "E">>) @@ ("x8f" :> <<"8", "F">>) @@
    ("x90" :> <<"9", "0">>) @@ ("x91" :> <<"9", "1">>) @@ ("x92" :> <<"9", "2">>) @@ ("x93" :> <<"9", "3">>) @@
    ("x94" :> <<"9", "4">>) @@ ("x95" :> <<"9", "5">>) @@ ("x96" :> <<"9", "6">>) @@ ("x97" :> <<"9", "7">>) @@
    ("x98" :> <<"9", "8">>) @@ ("x99" :> <<"9", "9">>) @@ ("x9a" :> <<"9", "A">>) @@ ("x9b" :> <<"9", "B">>) @@
    ("x9c" :> <<"9", "C">>) @@ ("x9d" :> <<"9", "D">>) @@ ("x9e" :> <<"9", "E">>) @@ ("x9f" :> <<"9", "F">>) @@
    ("xa0" :> <<"A", "0">>) @@ ("xa1" :> <<"A", "1">>) @@ ("xa2" :> <<"A", "2">>) @@ ("xa3" :> <<"A", "3">>) @@
    ("xa4" :> <<"A", "4">>) @@ ("xa5" :> <<"A", "5">>) @@ ("xa6" :> <<"A", "6">>) @@ ("xa7" :> <<"A", "7">>) @@
    ("xa8" :> <<"A", "8">>) @@ ("xa9" :> <<"A", "9">>) @@ ("xaa" :> <<"A", "A">>) @@ ("xab" :> <<"A", "B">>) @@
    ("xac" :> <<"A", "C">>) @@ ("xad" :> <<"A", "D">>) @@ ("xae" :> <<"A", "E">>) @@ ("xaf" :> <<"A", "F">>) @@
    ("xb0" :> <<"B", "0">>) @@ ("xb1" :> <<"B", "1">>) @@ ("xb2" :> <<"B", "2">>) @@ ("xb3" :> <<"B", "3">>) @@
    ("xb4" :> <<"B", "4">>) @@ ("xb5" :> <<"B", "5">>) @@ ("xb6" :> <<"B", "6">>) @@ ("xb7" :> <<"B", "7">>) @@
    ("xb8" :> <<"B", "8">>) @@ ("xb9" :> <<"B", "9">>) @@ ("xba" :> <<"B", "A">>) @@ ("xbb" :> <<"B", "B">>) @@
    ("xbc" :> <<"B", "C">>) @@ ("xbd" :> <<"B", "D">>) @@ ("xbe" :> <<"B", "E">>) @@ ("xbf" :> <<"B", "F">>) @@
    ("xc0" :> <<"C", "0">>) @@ ("xc1" :> <<"C", "1">>) @@ ("xc2" :> <<"C", "2">>) @@ ("xc3" :> <<"C", "3">>) @@
    ("xc4" :> <<"C", "4">>) @@ ("xc5" :> <<"C", "5">>) @@ ("xc6" :> <<"C", "6">>) @@ ("xc7" :> <<"C", "7">>) @@
    ("xc8" :> <<"C", "8">>) @@ ("xc9" :> <<"C", "9">>) @@ ("xca" :> <<"C", "A">>) @@ ("xcb" :> <<"C", "B">>) @@
    ("xcc" :> <<"C", "C">>) @@ ("xcd" :> <<"C", "D">>) @@ ("xce" :> <<"C", "E">>) @@ ("xcf" :> <<"C", "F">>) @@
    ("xd0" :> <<"D", "0">>) @@ ("xd1" :> <<"D", "1">>) @@ ("xd2" :> <<"D", "2">>) @@ ("xd3" :> <<"D", "3">>) @@
    ("xd4" :> <<"D", "4">>) @@ ("xd5" :> <<"D", "5">>) @@ ("xd6" :> <<"D", "6">>) @@ ("xd7" :> <<"D", "7">>) @@
    ("xd8" :> <<"D", "8">>) @@ ("xd9" :> <<"D", "9">>) @@ ("xda" :> <<"D", "A">>) @@ ("xdb" :> <<"D", "B">>) @@
    ("xdc" :> <<"D", "C">>) @@ ("xdd" :> <<"D", "D">>) @@ ("xde" :> <<"D", "E">>) @@ ("xdf" :> <<"D", "F">>) @@
    ("xe0" :> <<"E", "0">>) @@ ("xe1" :> <<"E", "1">>) @@ ("xe2" :> <<"E", "2">>) @@ ("xe3" :> <<"E", "3">>) @@
    ("xe4" :> <<"E", "4">>) @@ ("xe5" :> <<"E", "5">>) @@ ("xe6" :> <<"E", "6">>) @@ ("xe7" :> <<"E", "7">>) @@
    ("xe8" :> <<"E", "8">>) @@ ("xe9" :> <<"E", "9">>) @@ ("xea" :> <<"E", "A">>) @@ ("xeb" :> <<"E", "B">>) @@
    ("xec" :> <<"E", "C">>) @@ ("xed" :> <<"E", "D">>) @@ ("xee" :> <<"E", "E">>) @@ ("xef" :> <<"E", "F">>) @@
    ("xf0" :> <<"F", "0">>) @@ ("xf1" :> <<"F", "1">>) @@ ("xf2" :> <<"F", "2">>) @@ ("xf3" :> <<"F", "3">>) @@
    ("xf4" :> <<"F", "4">>) @@ ("xf5" :> <<"F", "5">>) @@ ("xf6" :> <<"F", "6">>) @@ ("xf7" :> <<"F", "7">>) @@
    ("xf8" :> <<"F", "8">>) @@ ("xf9" :> <<"F", "9">>) @@ ("xfa" :> <<"F", "A">>) @@ ("xfb" :> <<"F", "B">>) @@
    ("xfc" :> <<"F", "C">>) @@ ("xfd" :> <<"F", "D">>) @@ ("xfe" :> <<"F", "E">>) @@ ("xff" :> <<"F", "F">>)

\* the bytes quote_from_bytes leaves as they are (safe = "/")
QuoteSafe == LowerLetters \cup DOMAIN UpperToLower \cup Digits \cup {"_", ".", "-", "~", "/"}

QuoteByte(c) == IF c \in QuoteSafe THEN <<c>> ELSE <<"%">> \o ByteHex[c]

RECURSIVE quote_from_bytes(_)
quote_from_bytes(bs) ==
    IF bs = <<>> THEN <<>> ELSE QuoteByte(Head(bs)) \o quote_from_bytes(Tail(bs))

HexUpper == ("a" :> "A") @@ ("b" :> "B") @@ ("c" :> "C") @@ ("d" :> "D") @@
            ("e" :> "E") @@ ("f" :> "F")

HexDigits == Digits \cup DOMAIN HexUpper \cup {HexUpper[c] : c \in DOMAIN HexUpper}

ToHexUpper(c) == IF c \in DOMAIN HexUpper THEN HexUpper[c] ELSE c

\* _hextobyte: the byte of two hexadecimal digits of either case
HexToByte(h1, h2) ==
    CHOOSE c \in DOMAIN ByteHex : ByteHex[c] = <<ToHexUpper(h1), ToHexUpper(h2)>>

\* one item of string.split(b"%") after the first
UnquoteItem(item) ==
    IF Len(item) >= 2 /\ item[1] \in HexDigits /\ item[2] \in HexDigits
    THEN <<HexToByte(item[1], item[2])>> \o SubSeq(item, 3, Len(item))
    ELSE <<"%">> \o item

unquote_to_bytes(string) ==
    LET bits == bytes_split(string, "%")
    IN  bits[1] \o Cat([k \in 1..(Len(bits) - 1) |-> UnquoteItem(bits[k + 1])])

(***************************************************************************)
(* utils.replace_match and the regular expressions of repair_content.      *)
(* A match is a record with start (the position of its first byte) and end *)
(* (the position after its last byte), as re.Match.start() and end() give  *)
(* them, counted from 1.                                                   *)
(***************************************************************************)
NoMatch == [found |-> FALSE]

\* (a variant that places every match at its position in the snapshot)
replace_match_noOffset(match, repl, content, match_offset) ==
    [content |-> SubSeq(content, 1, match.start - 1) \o repl
                    \o SubSeq(content, match.end, Len(content)),
     match_offset |-> match_offset + Len(repl) - match.end + match.start]

replace_match(match, repl, content, match_offset) ==
    [content |-> SubSeq(content, 1, match.start - 1 + match_offset) \o repl
                    \o SubSeq(content, match.end + match_offset, Len(content)),
     match_offset |-> match_offset + Len(repl) - match.end + match.start]

\* the first position >= i of a byte in set, or 0
NextIn(s, i, set) ==
    LET occ == { k \in i..Len(s) : s[k] \in set }
    IN  IF occ = {} THEN 0 ELSE Min(occ)

\* the first position >= i of a byte not in set, Len(s) + 1 if there is none
NextNotIn(s, i, set) ==
    LET occ == { k \in i..Len(s) : s[k] \notin set }
    IN  IF occ = {} THEN Len(s) + 1 ELSE Min(occ)

\* the last position of a byte not in set, or 0
LastNotIn(s, set) ==
    LET occ == { k \in 1..Len(s) : s[k] \notin set }
    IN  IF occ = {} THEN 0 ELSE CHOOSE k \in occ : \A j \in occ : j <= k

Blank == {" ", "\t"}
Whitespace == {" ", "\t", "\n", "\r", "\f"}

\* bytes.strip()
bytes_strip(s) == SubSeq(s, NextNotIn(s, 1, Whitespace), LastNotIn(s, Whitespace))

\* MARKDOWN_H1_PATTERN = ^# +(?P<title>.+)\r?(\n|$), searched without
\* re.MULTILINE: the greedy .+ takes the line up to its "\n", a "\r" included
MARKDOWN_H1_PATTERN(s) ==
    LET p  == NextNotIn(s, 2, {" "})
        sp == p - 2
        nl == NextIn(s, p, {"\n"})
        stop == IF nl = 0 THEN Len(s) + 1 ELSE nl
    IN  IF s # <<>> /\ s[1] = "#" /\ sp >= 1 /\ (stop > p \/ sp >= 2)
        THEN [found |-> TRUE,
              title |-> IF stop > p THEN SubSeq(s, p, stop - 1) ELSE <<" ">>,
              end   |-> IF nl = 0 THEN Len(s) + 1 ELSE nl + 1]
        ELSE NoMatch

\* the frame of both link patterns at position i: \[ [^]]* ] \( [^)]* \)
LinkFrameAt(s, i) ==
    LET rb == NextIn(s, i + 1, {"]"})
        rp == IF rb = 0 THEN 0 ELSE NextIn(s, rb + 2, {")"})
    IN  IF i <= Len(s) /\ s[i] = "[" /\ rb # 0 /\ rb < Len(s) /\ s[rb + 1] = "(" /\ rp # 0
        THEN [found |-> TRUE, start |-> i, end |-> rp + 1,
              name |-> SubSeq(s, i + 1, rb - 1), url |-> SubSeq(s, rb + 2, rp - 1)]
        ELSE NoMatch

\* the url group of MARKDOWN_RESOURCE_LINK_PATTERN: [^)]*\.(?!md)[^.\n)]+
ResourceUrl(url) ==
    LET dots == { k \in 1..Len(url) : url[k] = "." }
        d == CHOOSE k \in dots : \A j \in dots : j <= k
    IN  /\ dots # {}
        /\ d < Len(url)
        /\ \A k \in (d + 1)..Len(url) : url[k] # "\n"
        /\ ~StartsWithAt(url, d + 1, <<"m", "d">>)

MARKDOWN_RESOURCE_LINK_PATTERN(s, i) ==
    LET m == LinkFrameAt(s, i)
    IN  IF m.found /\ ResourceUrl(m.url) THEN m ELSE NoMatch

\* MARKDOWN_MD_LINK_PATTERN: the url group is [^)]*\.md
MARKDOWN_MD_LINK_PATTERN(s, i) ==
    LET m == LinkFrameAt(s, i)
    IN  IF m.found /\ EndsWith(m.url, MD) THEN m ELSE NoMatch

\* MARKDOWN_RESOURCE_LINK_PATTERN.finditer(s), from position i on
RECURSIVE ResourceLinks(_, _)
ResourceLinks(s, i) ==
    LET occ == { k \in i..Len(s) : MARKDOWN_RESOURCE_LINK_PATTERN(s, k).found }
    IN  IF occ = {} THEN <<>>
        ELSE LET m == MARKDOWN_RESOURCE_LINK_PATTERN(s, Min(occ))
             IN  <<m>> \o ResourceLinks(s, m.end)

\* MARKDOWN_MD_LINK_PATTERN.finditer(s), from position i on
RECURSIVE MdLinks(_, _)
MdLinks(s, i) ==
    LET occ == { k \in i..Len(s) : MARKDOWN_MD_LINK_PATTERN(s, k).found }
    IN  IF occ = {} THEN <<>>
        ELSE LET m == MARKDOWN_MD_LINK_PATTERN(s, Min(occ))
             IN  <<m>> \o MdLinks(s, m.end)

CRIT == <<"c", "r", "i", "t">>
TILDES == <<"~", "~">>

\* MARKDOWN_CRIT_PATTERN = ~~[ \t]*(?P<crit_group>crit[ \t]+[^~]+)~~[ \t]*\n?
MARKDOWN_CRIT_PATTERN(s, i) ==
    LET c  == NextNotIn(s, i + 2, Blank)
        a  == c + 4
        t  == NextIn(s, a, {"~"})
        e1 == NextNotIn(s, t + 2, Blank)
    IN  IF /\ StartsWithAt(s, i, TILDES)
           /\ StartsWithAt(s, c, CRIT)
           /\ a <= Len(s) /\ s[a] \in Blank
           /\ t # 0 /\ t - a >= 2
           /\ StartsWithAt(s, t, TILDES)
        THEN [found |-> TRUE, start |-> i,
              end |-> IF e1 <= Len(s) /\ s[e1] = "\n" THEN e1 + 1 ELSE e1,
              crit_group |-> SubSeq(s, c, t - 1)]
        ELSE NoMatch

RECURSIVE CritMarkers(_, _)
CritMarkers(s, i) ==
    LET occ == { k \in i..Len(s) : MARKDOWN_CRIT_PATTERN(s, k).found }
    IN  IF occ = {} THEN <<>>
        ELSE LET m == MARKDOWN_CRIT_PATTERN(s, Min(occ))
             IN  <<m>> \o CritMarkers(s, m.end)

\* MARKDOWN_CRIT_PATTERN_SELF = crit[ \t]+(?P<crit>((?!crit)[^~])+): the
\* payload stops before a "~" and before the next "crit"; when the blanks run
\* right up to such a stop, the last blank is given back as the payload
MARKDOWN_CRIT_PATTERN_SELF(g, i) ==
    LET a == i + 4
        p == NextNotIn(g, a, Blank)
        stops == { k \in p..Len(g) : g[k] = "~" \/ StartsWithAt(g, k, CRIT) }
        q == IF stops = {} THEN Len(g) + 1 ELSE Min(stops)
    IN  IF StartsWithAt(g, i, CRIT) /\ p - a >= 1 /\ (q > p \/ p - a >= 2)
        THEN [found |-> TRUE, start |-> i,
              end  |-> IF q > p THEN q ELSE p,
              crit |-> IF q > p THEN SubSeq(g, p, q - 1) ELSE <<g[p - 1]>>]
        ELSE NoMatch

RECURSIVE CritSelves(_, _)
CritSelves(g, i) ==
    LET occ == { k \in i..Len(g) : MARKDOWN_CRIT_PATTERN_SELF(g, k).found }
    IN  IF occ = {} THEN <<>>
        ELSE LET m == MARKDOWN_CRIT_PATTERN_SELF(g, Min(occ))
             IN  <<m>> \o CritSelves(g, m.end)

(***************************************************************************)
(* repair_content                                                          *)
(***************************************************************************)
DEFAULT_WEIGHT == <<"9", "9">>

\* os.path.basename
basename(path) ==
    LET parts == bytes_split(path, "/")
    IN  parts[Len(parts)]

\* a for loop over the matches found on a snapshot: replace_match is applied
\* to each in turn with the running offset; offsets keeps the offset each
\* match was applied with.  (Intermediate values are bound with x \in {e},
\* which evaluates e once.)
RECURSIVE ReplaceLoop(_, _)
ReplaceLoop(k, acc) ==
    IF k > Len(acc.matches) THEN acc
    ELSE CHOOSE out \in
            { ReplaceLoop(k + 1, [acc EXCEPT !.content = r.content,
                                             !.match_offset = r.match_offset,
                                             !.offsets = Append(@, acc.match_offset)]) :
                r \in { replace_match(acc.matches[k], acc.repls[k],
                                      acc.content, acc.match_offset) } } : TRUE

ReplaceMatches(matches, repls, content) ==
    CHOOSE out \in
        { ReplaceLoop(1, acc) :
            acc \in { [matches |-> matches, repls |-> repls, offsets |-> <<>>,
                       before |-> content, content |-> content, match_offset |-> 0] } } : TRUE

\* "repair Resource links"
ResourcePass(content, old_link_prefix, resource_dir_names) ==
    CHOOSE out \in
        { ReplaceMatches(ms,
              [k \in 1..Len(ms) |-> repair_link(ms[k].name, ms[k].url, old_link_prefix,
                                                resource_dir_names, <<>>, FALSE)],
              content) :
            ms \in { ResourceLinks(content, 1) } } : TRUE

\* "repair Markdown links"
MdPass(content, old_link_prefix, resource_dir_names) ==
    CHOOSE out \in
        { ReplaceMatches(ms,
              [k \in 1..Len(ms) |-> repair_link(ms[k].name, ms[k].url, old_link_prefix,
                                                resource_dir_names, <<>>, TRUE)],
              content) :
            ms \in { MdLinks(content, 1) } } : TRUE

\* the stripped crit group of one marker, without quotes and newlines
StripCritGroup(crit_group) ==
    CHOOSE out \in
        { bytes_replace(g, <<"\n">>, <<>>) :
            g \in { bytes_replace(stripped, <<"\"">>, <<>>) :
                      stripped \in { bytes_strip(crit_group) } } } : TRUE

\* the cleaned crit group of one marker, its inner links replaced by their names
CleanCritGroup(crit_group) ==
    CHOOSE out \in
        UNION { { ReplaceMatches(ms, [k \in 1..Len(ms) |-> ms[k].name], g).content :
                    ms \in { ResourceLinks(g, 1) } } :
                g \in { StripCritGroup(crit_group) } } : TRUE

\* the crits of one marker, in order
MarkerCrits(crit_group) ==
    CHOOSE out \in
        UNION { { [k \in 1..Len(ms) |-> bytes_strip(ms[k].crit)] :
                    ms \in { CritSelves(g, 1) } } :
                g \in { CleanCritGroup(crit_group) } } : TRUE

ShortCode(crit) ==
    <<"{", "{", "<", " ", "c", "r", "i", "t", " ", "\"">> \o crit \o <<"\"", " ", ">", "}", "}">>

\* b"\n".join(md_crit_list)
MarkerReplacement(crits) ==
    bytes_join([k \in 1..Len(crits) |-> ShortCode(crits[k])], <<"\n">>)

\* "tags & crit": crits[k] are the crits of the k-th marker
CritPass(content) ==
    CHOOSE out \in
        UNION { { [crits |-> crits,
                   tags |-> UNION { { crits[k][j] : j \in 1..Len(crits[k]) } :
                                    k \in 1..Len(ms) }]
                  @@ ReplaceMatches(ms, [k \in 1..Len(ms) |-> MarkerReplacement(crits[k])],
                                    content) :
                    crits \in { [k \in 1..Len(ms) |-> MarkerCrits(ms[k].crit_group)] } } :
                ms \in { CritMarkers(content, 1) } } : TRUE

\* "extract title"
TitleMatch(content) == MARKDOWN_H1_PATTERN(content)

\* the three passes one after the other, each on the output of the one before
Passes(content, old_link_prefix, resource_dir_names) ==
    CHOOSE out \in
        UNION { UNION { { [resource_pass |-> res, md_pass |-> md, crit_pass |-> crit] :
                            crit \in { CritPass(md.content) } } :
                        md \in { MdPass(res.content, old_link_prefix, resource_dir_names) } } :
                res \in { ResourcePass(content, old_link_prefix, resource_dir_names) } } : TRUE

repair_content(content, src, resource_dir_names) ==
    CHOOSE out \in
        UNION { { [title |-> IF title_match.found THEN title_match.title ELSE file_basename,
                   titled |-> title_match.found,
                   slug |-> unquote_to_bytes(removesuffix(repair_url_part(old_link_prefix), MD)),
                   weight |-> DEFAULT_WEIGHT,
                   tags |-> p.crit_pass.tags,
                   body |-> p.crit_pass.content]
                  @@ p :
                    p \in { Passes(IF title_match.found
                                   THEN SubSeq(content, title_match.end, Len(content))
                                   ELSE content,
                                   old_link_prefix, resource_dir_names) } } :
                file_basename \in { removesuffix(basename(src), MD) },
                title_match \in { TitleMatch(content) },
                old_link_prefix \in
                    { repair_url_part(quote_from_bytes(removesuffix(basename(src), MD))) } } : TRUE

\* the orders in which a set can be iterated
Orders(S) ==
    { f \in [1..Cardinality(S) -> S] : \A i, j \in 1..Cardinality(S) : f[i] = f[j] => i = j }

\* the returned bytes: the metadata header, then the body
Document(title, slug, weight, tag_order, body) ==
    <<"-", "-", "-", "\n", "t", "i", "t", "l", "e", ":", " ">> \o title
    \o <<"\n", "s", "l", "u", "g", ":", " ">> \o slug
    \o <<"\n", "w", "e", "i", "g", "h", "t", ":", " ">> \o weight
    \o <<"\n", "t", "a", "g", "s", ":", " ", "[", " ">>
    \o bytes_join([k \in 1..Len(tag_order) |-> <<"\"">> \o tag_order[k] \o <<"\"">>],
                  <<",", " ">>)
    \o <<" ", "]", "\n", "-", "-", "-", "\n", "\n">> \o body

(***************************************************************************)
(* Calls of repair_content: the document is up to MaxContentChunks chunks  *)
(* (headings ended by LF and by CRLF, text, links of both kinds, relative  *)
(* and absolute, crit markers, an unclosed link opener).                   *)
(***************************************************************************)
ContentChunks ==
    { <<"#", " ", "T", "\n">>,
      <<"#", " ", "T", "\r", "\n">>,
      <<"x", "\n">>,
      <<"[", "n", "]", "(", "F", "o", "o", "/", "a", ".", "m", "d", ")">>,
      <<"[", "n", "]", "(", "S", "i", "b", "/", "i", ".", "p", "n", "g", ")">>,
      <<"[", "n", "]", "(", "h", "t", "t", "p", ":", "/", "/", "e", "/", "a", ".", "m", "d", ")">>,
      <<"[", "n", "]", "(", "h", "t", "t", "p", ":", "/", "/", "e", "/", "i", ".", "p", "n", "g", ")">>,
      <<"~", "~", "c", "r", "i", "t", " ", "a", "b", "~", "~">>,
      <<"~", "~", "c", "r", "i", "t", " ", "c", "r", "i", "t", "i", "c", "~", "~">>,
      <<"~", "~", "c", "r", "i", "t", " ", "a", " ", "c", "r", "i", "t", " ", "b", "~", "~", "\n">>,
      <<"[", "n", "]", "(">> }

ContentInputs == ChunkStrings(ContentChunks, MaxContentChunks)

ContentSources ==
    { <<"i", "n", "/", "F", "o", "o", ".", "m", "d">>,
      <<"i", "n", "/", "a", " ", "b", ".", "m", "d">> }

ContentStart ==
    /\ cr_content \in ContentInputs
    /\ cr_src \in ContentSources
    /\ cr_dirs \in { <<>>, <<SIB>> }
    /\ cr_out = <<>>
    /\ cr_tag_order = <<>>
    /\ cr_pc = "call"

ContentIdle ==
    /\ cr_content = <<>>
    /\ cr_src = <<>>
    /\ cr_dirs = <<>>
    /\ cr_out = <<>>
    /\ cr_tag_order = <<>>
    /\ cr_pc = "idle"

\* one call of repair_content; the header lists the tag set in the order the
\* set happens to be iterated
RepairContent ==
    /\ cr_pc = "call"
    /\ \E out \in { repair_content(cr_content, cr_src, cr_dirs) } :
         /\ cr_out' = out
         /\ cr_tag_order' \in Orders(out.tags)
    /\ cr_pc' = "done"
    /\ UNCHANGED <<cr_content, cr_src, cr_dirs>>
    /\ UNCHANGED notContentVars

\* a second call of repair_content with the same arguments, in another run
\* of the program: the tag set is iterated in the order of that run
RepairContentAgain ==
    /\ cr_pc = "done"
    /\ \E out \in { repair_content(cr_content, cr_src, cr_dirs) } :
         /\ cr_out' = out
         /\ cr_tag_order' \in Orders(out.tags)
    /\ cr_pc' = "again"
    /\ UNCHANGED <<cr_content, cr_src, cr_dirs>>
    /\ UNCHANGED notContentVars

(***************************************************************************)
(* The file system.  A path is a sequence of names (byte strings) below    *)
(* the hugo directory, which is the path <<>>; a tree maps the paths that  *)
(* exist to a directory or to a file with its bytes.                       *)
(***************************************************************************)
CONTENT == <<"c", "o", "n", "t", "e", "n", "t">>
STATIC == <<"s", "t", "a", "t", "i", "c">>
INDEX_MD == <<"_", "i", "n", "d", "e", "x", ".", "m", "d">>
DOT == <<".">>

Directory == [dir |-> TRUE, content |-> <<>>]
File(content) == [dir |-> FALSE, content |-> content]

\* the path the system resolves: "." and an empty name stay, ".." goes one
\* directory up
RECURSIVE normpath(_)
normpath(path) ==
    IF path = <<>> THEN <<>>
    ELSE CHOOSE out \in
            { IF path[Len(path)] \in { DOT, <<>> } THEN front
              ELSE IF path[Len(path)] = DOTDOT THEN SubSeq(front, 1, Len(front) - 1)
              ELSE Append(front, path[Len(path)]) :
                front \in { normpath(SubSeq(path, 1, Len(path) - 1)) } } : TRUE

\* os.path.isdir, os.path.isfile, os.path.exists
isdir(tree, path) == normpath(path) \in DOMAIN tree /\ tree[normpath(path)].dir
isfile(tree, path) == normpath(path) \in DOMAIN tree /\ ~tree[normpath(path)].dir
exists(tree, path) == normpath(path) \in DOMAIN tree

\* os.listdir: the names in a directory
listdir(tree, path) ==
    { p[Len(p)] : p \in { q \in DOMAIN tree : /\ Len(q) = Len(path) + 1
                                              /\ SubSeq(q, 1, Len(path)) = path } }

\* a tree with one more path, or with that path's node replaced
WithNode(tree, path, node) ==
    [p \in DOMAIN tree \cup {path} |-> IF p = path THEN node ELSE tree[p]]

(***************************************************************************)
(* weights.py.  The state a call works on is a record: tree (the file      *)
(* system), exit_status (g_exit_status of utils.py) and log (the records   *)
(* the logger got, debug records left out).                                *)
(***************************************************************************)
\* MARKDOWN_DIR_LINK_PATTERN = \[(?P<name>[^]]*)]\((?P<url>[^)/]+)\)
MARKDOWN_DIR_LINK_PATTERN(s, i) ==
    LET rb == NextIn(s, i + 1, {"]"})
        ue == IF rb = 0 THEN 0 ELSE NextIn(s, rb + 2, {")", "/"})
    IN  IF /\ i <= Len(s) /\ s[i] = "[" /\ rb # 0 /\ rb < Len(s) /\ s[rb + 1] = "("
           /\ ue > rb + 2 /\ s[ue] = ")"
        THEN [found |-> TRUE, start |-> i, end |-> ue + 1,
              name |-> SubSeq(s, i + 1, rb - 1), url |-> SubSeq(s, rb + 2, ue - 1)]
        ELSE NoMatch

\* MARKDOWN_DIR_LINK_PATTERN.finditer(s), from position i on
RECURSIVE DirLinks(_, _)
DirLinks(s, i) ==
    LET occ == { k \in i..Len(s) : MARKDOWN_DIR_LINK_PATTERN(s, k).found }
    IN  IF occ = {} THEN <<>>
        ELSE LET m == MARKDOWN_DIR_LINK_PATTERN(s, Min(occ))
             IN  <<m>> \o DirLinks(s, m.end)

\* the for loop of link_order_from_index_file, from the k-th match on
RECURSIVE LinkOrderLoop(_, _, _, _, _)
LinkOrderLoop(tree, markdown_dir, matches, k, link_order) ==
    IF k > Len(matches) THEN link_order
    ELSE CHOOSE out \in
            { LinkOrderLoop(tree, markdown_dir, matches, k + 1, next) :
                next \in { IF \/ InList(matches[k].url, link_order)
                              \/ ~isdir(tree, Append(markdown_dir, matches[k].url))
                           THEN link_order
                           ELSE Append(link_order, matches[k].url) } } : TRUE

\* (the caller has made sure that the index file can be opened)
link_order_from_index_file(tree, index_file_path, markdown_dir) ==
    CHOOSE out \in
        { LinkOrderLoop(tree, markdown_dir, matches, 1, <<>>) :
            matches \in { DirLinks(tree[normpath(index_file_path)].content, 1) } } : TRUE

WEIGHT_TAG == <<"w", "e", "i", "g", "h", "t", ":", " ">>

\* re.search(b"^weight: 99$", content, re.MULTILINE)
WeightSearch(content) ==
    LET line == WEIGHT_TAG \o DEFAULT_WEIGHT
        occ == { i \in 1..Len(content) :
                    /\ i = 1 \/ content[i - 1] = "\n"
                    /\ StartsWithAt(content, i, line)
                    /\ i + Len(line) > Len(content) \/ content[i + Len(line)] = "\n" }
    IN  IF occ = {} THEN NoMatch
        ELSE [found |-> TRUE, start |-> Min(occ), end |-> Min(occ) + Len(line)]

DigitTokens == <<"0", "1", "2", "3", "4", "5", "6", "7", "8", "9">>

\* bytes(str(n), "utf-8") for n >= 0
RECURSIVE str(_)
str(n) ==
    IF n < 10 THEN <<DigitTokens[n + 1]>>
    ELSE str(n \div 10) \o <<DigitTokens[(n % 10) + 1]>>

Logged(st, level, event, path) ==
    [st EXCEPT !.log = Append(@, [level |-> level, event |-> event, path |-> path])]

\* logger.debug of a weight: "Setting weight of ... to ..." (path is the
\* directory joined with the link target), "Updated weight to ... for ..."
LoggedWeight(st, event, path, weight) ==
    [st EXCEPT !.log = Append(@, [level |-> "debug", event |-> event, path |-> path,
                                  weight |-> weight])]

\* (a variant that counts a missing placeholder as an error)
set_page_weight_strict(st, target_file_path, link_weight) ==
    IF ~isfile(st.tree, target_file_path)
    THEN IF ~EndsWith(target_file_path[Len(target_file_path)], PNG)
         THEN [Logged(st, "error", "no target file", target_file_path)
                  EXCEPT !.exit_status = 1]
         ELSE st
    ELSE CHOOSE out \in
            UNION { { IF ~m.found
                      THEN [Logged(st, "warning", "no weight tag", target_file_path)
                               EXCEPT !.exit_status = 1]
                      ELSE LoggedWeight(
                               [st EXCEPT !.tree =
                                   WithNode(@, normpath(target_file_path),
                                       File(replace_match(m, WEIGHT_TAG \o str(link_weight),
                                                          content, 0).content))],
                               "updated weight", target_file_path, link_weight) :
                        m \in { WeightSearch(content) } } :
                    content \in { st.tree[normpath(target_file_path)].content } } : TRUE

set_page_weight(st, target_file_path, link_weight) ==
    IF ~isfile(st.tree, target_file_path)
    THEN IF ~EndsWith(target_file_path[Len(target_file_path)], PNG)
         THEN [Logged(st, "error", "no target file", target_file_path)
                  EXCEPT !.exit_status = 1]
         ELSE st
    ELSE CHOOSE out \in
            UNION { { IF ~m.found
                      THEN Logged(st, "warning", "no weight tag", target_file_path)
                      ELSE LoggedWeight(
                               [st EXCEPT !.tree =
                                   WithNode(@, normpath(target_file_path),
                                       File(replace_match(m, WEIGHT_TAG \o str(link_weight),
                                                          content, 0).content))],
                               "updated weight", target_file_path, link_weight) :
                        m \in { WeightSearch(content) } } :
                    content \in { st.tree[normpath(target_file_path)].content } } : TRUE

\* the second for loop of set_weights: enumerate(link_order, 1), from k on
RECURSIVE SetPageWeights(_, _, _, _)
SetPageWeights(st, markdown_dir, link_order, k) ==
    IF k > Len(link_order) THEN st
    ELSE CHOOSE out \in
            { SetPageWeights(next, markdown_dir, link_order, k + 1) :
                next \in { set_page_weight(
                              LoggedWeight(st, "setting weight",
                                           Append(markdown_dir, link_order[k]), k),
                              markdown_dir \o <<link_order[k], INDEX_MD>>, k) } } : TRUE

\* the names of a directory in the order os.listdir gives them: listing is
\* an order of all names, and a directory lists its own names in that order
Listed(tree, path, listing) ==
    LET present == { k \in 1..Len(listing) : listing[k] \in listdir(tree, path) }
    IN  [j \in 1..Cardinality(present) |->
            listing[CHOOSE k \in present : Cardinality({ i \in present : i <= k }) = j]]

\* set_weights; names[k..] are the names of markdown_dir still to visit
RECURSIVE set_weights(_, _, _, _)
RECURSIVE SetWeightsBelow(_, _, _, _, _, _)
SetWeightsBelow(st, markdown_dir, depth, listing, names, k) ==
    IF k > Len(names) THEN st
    ELSE CHOOSE out \in
            { SetWeightsBelow(next, markdown_dir, depth, listing, names, k + 1) :
                next \in { IF isdir(st.tree, Append(markdown_dir, names[k]))
                           THEN set_weights(st, Append(markdown_dir, names[k]),
                                            depth + 1, listing)
                           ELSE st } } : TRUE

set_weights(st, markdown_dir, depth, listing) ==
    CHOOSE out \in
        { IF depth = 0 THEN below
          ELSE IF ~isfile(below.tree, Append(markdown_dir, INDEX_MD))
          THEN [Logged(below, "error", "no index file", Append(markdown_dir, INDEX_MD))
                   EXCEPT !.exit_status = 1]
          ELSE SetPageWeights(below, markdown_dir,
                   link_order_from_index_file(below.tree, Append(markdown_dir, INDEX_MD),
                                              markdown_dir), 1) :
            below \in { SetWeightsBelow(st, markdown_dir, depth, listing,
                                        Listed(st.tree, markdown_dir, listing), 1) } } : TRUE

(***************************************************************************)
(* Calls of set_weights on an output tree: content/a with its index        *)
(* document (links in up to MaxIndexLinks chunks) and an image, the        *)
(* children content/a/b and content/a/c in several conditions, and perhaps *)
(* a document content/_index.md.                                           *)
(***************************************************************************)
NAME_A == <<"a">>
NAME_B == <<"b">>
NAME_C == <<"c">>
IMG_PNG == <<"i", ".", "p", "n", "g">>

\* the tree of a set of <<path, node>> pairs
TreeOf(nodes) ==
    [p \in { n[1] : n \in nodes } |-> (CHOOSE n \in nodes : n[1] = p)[2]]

IndexChunks ==
    { <<"[", "B", "]", "(", "b", ")", "\n">>,
      <<"[", "C", "]", "(", "c", ")", "\n">>,
      <<"[", "I", "]", "(", "i", ".", "p", "n", "g", ")", "\n">>,
      <<"[", "U", "]", "(", ".", ".", ")", "\n">>,
      <<"[", "D", "]", "(", ".", ")", "\n">>,
      <<"[", "S", "]", "(", "b", "/", "c", ")", "\n">> }

IndexBodies == ChunkStrings(IndexChunks, MaxIndexLinks)

\* a child directory: absent, without index document, or with one that has
\* the placeholder, that has it in its body as well, or that has none
ChildKinds == { "none", "empty", "plain", "bodyline", "weighted" }

ChildNodes(path, name, kind) ==
    IF kind = "none" THEN {}
    ELSE { <<path, Directory>> } \cup
         IF kind = "empty" THEN {}
         ELSE { << Append(path, INDEX_MD),
                   File(Document(name, name,
                                 IF kind = "weighted" THEN <<"7">> ELSE DEFAULT_WEIGHT,
                                 <<>>,
                                 IF kind = "bodyline"
                                 THEN WEIGHT_TAG \o DEFAULT_WEIGHT \o <<"\n">>
                                 ELSE <<"x", "\n">>)) >> }

WeightTrees ==
    { TreeOf({ << <<>>, Directory >>, << <<CONTENT>>, Directory >>,
               << <<CONTENT, NAME_A>>, Directory >>,
               << <<CONTENT, NAME_A, IMG_PNG>>, File(<<"x89", "P", "N", "G">>) >> }
             \cup root_doc \cup a_doc
             \cup ChildNodes(<<CONTENT, NAME_A, NAME_B>>, NAME_B, b_kind)
             \cup ChildNodes(<<CONTENT, NAME_A, NAME_C>>, NAME_C, c_kind)) :
        root_doc \in { {}, { << <<CONTENT, INDEX_MD>>,
                                File(Document(<<"R">>, <<"r">>, DEFAULT_WEIGHT, <<>>,
                                              <<"x", "\n">>)) >> } },
        a_doc \in { {} } \cup
                  { { << <<CONTENT, NAME_A, INDEX_MD>>,
                         File(Document(<<"A">>, NAME_A, DEFAULT_WEIGHT, <<>>, body)) >> } :
                      body \in IndexBodies },
        b_kind \in ChildKinds, c_kind \in ChildKinds }

\* the names of the directories below path
DirNamesBelow(tree, path) ==
    { p[Len(p)] : p \in { q \in DOMAIN tree : /\ Len(q) > Len(path)
                                              /\ SubSeq(q, 1, Len(path)) = path
                                              /\ tree[q].dir } }

WeightsStart ==
    /\ fs \in WeightTrees
    /\ fs_before = fs
    /\ g_exit_status = 0
    /\ log = <<>>
    /\ runs = 0
    /\ run_pc = "weights"

WeightsIdle ==
    /\ fs = <<>>
    /\ fs_before = <<>>
    /\ g_exit_status = 0
    /\ log = <<>>
    /\ runs = 0
    /\ run_pc = "idle"

\* one call set_weights(content_output_dir); os.listdir may give the names
\* of a directory in any order
SetWeights ==
    /\ run_pc = "weights"
    /\ runs < MaxRuns
    /\ \E listing \in Orders(DirNamesBelow(fs, <<CONTENT>>)) :
       \E out \in { set_weights([tree |-> fs, exit_status |-> g_exit_status, log |-> log],
                                <<CONTENT>>, 0, listing) } :
         /\ fs' = out.tree
         /\ g_exit_status' = out.exit_status
         /\ log' = out.log
    /\ fs_before' = fs
    /\ runs' = runs + 1
    /\ UNCHANGED <<run_pc, src_fs, force, dm, cwd_dirs, error, writes, g_dm_tags,
                   g_all_dm_tags, visited>>
    /\ UNCHANGED notRunVars

(***************************************************************************)
(* Calls of set_weights on a wide output tree: content/a with MaxSiblings  *)
(* child directories p1, p2, ..., each with an index document that has the *)
(* placeholder, and an index document of content/a that links them all in  *)
(* that order.                                                             *)
(***************************************************************************)
SiblingName(k) == <<"p">> \o str(k)

RECURSIVE SiblingLinks(_, _)
SiblingLinks(k, n) ==
    IF k > n THEN <<>>
    ELSE <<"[", "p", "]", "(">> \o SiblingName(k) \o <<")", "\n">> \o SiblingLinks(k + 1, n)

WideTree(n) ==
    TreeOf({ << <<>>, Directory >>, << <<CONTENT>>, Directory >>,
             << <<CONTENT, NAME_A>>, Directory >>,
             << <<CONTENT, NAME_A, INDEX_MD>>,
                File(Document(<<"A">>, NAME_A, DEFAULT_WEIGHT, <<>>, SiblingLinks(1, n))) >> }
           \cup UNION { ChildNodes(<<CONTENT, NAME_A, SiblingName(k)>>, SiblingName(k), "plain") :
                          k \in 1..n })

\* the order of os.listdir on a wide tree: the order of the names has no
\* effect on such a tree, and one order is taken
WideListing == <<NAME_A>> \o [k \in 1..MaxSiblings |-> SiblingName(k)]

WideStart ==
    /\ fs = WideTree(MaxSiblings)
    /\ fs_before = fs
    /\ g_exit_status = 0
    /\ log = <<>>
    /\ runs = 0
    /\ run_pc = "wide"

\* one call set_weights(content_output_dir) on a wide tree
SetWeightsWide ==
    /\ run_pc = "wide"
    /\ runs < MaxRuns
    /\ \E out \in { set_weights([tree |-> fs, exit_status |-> g_exit_status, log |-> log],
                                <<CONTENT>>, 0, WideListing) } :
         /\ fs' = out.tree
         /\ g_exit_status' = out.exit_status
         /\ log' = out.log
    /\ fs_before' = fs
    /\ runs' = runs + 1
    /\ UNCHANGED <<run_pc, src_fs, force, dm, cwd_dirs, error, writes, g_dm_tags,
                   g_all_dm_tags, visited>>
    /\ UNCHANGED notRunVars

(***************************************************************************)
(* repair_name (for names without a line feed)                             *)
(***************************************************************************)
NameSubstitutions ==
    << <<(<<"e", "xa6", "xfc">>), (<<"xc3", "xa9">>)>>,
       <<(<<"e", "xcc", "x81">>), (<<"xc3", "xa9">>)>>,
       <<(<<"xc3", "xa9">>), (<<"e">>)>>,
       <<(<<"xc3", "xa7">>), (<<"c">>)>>,
       <<(<<"xe2", "x80", "x99">>), (<<"_">>)>> >>

\* FILE_HASH_SUFFIX_PATTERN = (.*)( [0-9a-z]{32})(\.md)?$
FILE_HASH_SUFFIX_PATTERN(name) ==
    LET stem == removesuffix(name, MD)
        p    == Len(stem) - HashLen
    IN  IF p >= 1 /\ stem[p] = " " /\ \A k \in 1..HashLen : HashChar(stem[p + k])
        THEN [found |-> TRUE, group1 |-> SubSeq(stem, 1, p - 1),
              group3 |-> IF EndsWith(name, MD) THEN MD ELSE <<>>]
        ELSE NoMatch

repair_name(name) ==
    CHOOSE out \in
        UNION { { IF m.found THEN m.group1 \o m.group3 ELSE folded :
                    m \in { FILE_HASH_SUFFIX_PATTERN(folded) } } :
                folded \in { ApplySubstitutions(name, NameSubstitutions) } } : TRUE

\* a 32-character token of [0-9a-z] that is not hexadecimal
Letters32 == [i \in 1..HashLen |-> IF i % 2 = 0 THEN "z" ELSE "0"]

\* the pieces names are made of: plain text, the accent and quote forms of
\* an export, hash tokens, the first 31 characters of one, the extension
NameChunks ==
    { <<"P">>, <<" ">>, <<"e">>, MD, <<"&">>, <<",">>,
      <<"xc3", "xa9">>, <<"xcc", "x81">>, <<"xc3", "xa7">>, <<"xe2", "x80", "x99">>,
      <<" ">> \o Hash32,
      <<" ">> \o Letters32,
      <<" ">> \o SubSeq(Hash32, 1, HashLen - 1) }

NameInputs == ChunkStrings(NameChunks, MaxNameChunks)

NameStart ==
    /\ name_in \in NameInputs
    /\ name_out = <<>>
    /\ name_pc = "call"

NameIdle ==
    /\ name_in = <<>>
    /\ name_out = <<>>
    /\ name_pc = "idle"

\* the call of repair_name
RepairName ==
    /\ name_pc = "call"
    /\ name_out' = repair_name(name_in)
    /\ name_pc' = "done"
    /\ UNCHANGED name_in
    /\ UNCHANGED notNameVars

(***************************************************************************)
(* The tree walker.  The state a call works on is a record: tree (the      *)
(* destination file system), error ("none", or the exception that ended    *)
(* the run), writes (the file writes so far, each with whether it replaced *)
(* a file), g_dm_tags and g_all_dm_tags (dictionaries: sequences of        *)
(* <<key, value>> in insertion order) and visited (the entries of the      *)
(* source tree looked at so far).  What a run does not change is in   *)
(* env: src (the source tree, its root being the input directory), force,  *)
(* listing (the order os.listdir gives names in) and cwd_dirs (the names   *)
(* that are directories in the current working directory).                 *)
(***************************************************************************)
Raised(st) == st.error # "none"

Raise(st, exception) == [st EXCEPT !.error = exception]

\* os.mkdir
mkdir(st, path) ==
    IF exists(st.tree, path) THEN Raise(st, "FileExistsError")
    ELSE IF ~isdir(st.tree, SubSeq(normpath(path), 1, Len(normpath(path)) - 1))
    THEN Raise(st, "FileNotFoundError")
    ELSE [st EXCEPT !.tree = WithNode(@, normpath(path), Directory)]

\* open(path, mode) with mode "wb" or "ab", and write
WriteFile(st, path, content, mode) ==
    IF isdir(st.tree, path) THEN Raise(st, "IsADirectoryError")
    ELSE IF ~isdir(st.tree, SubSeq(normpath(path), 1, Len(normpath(path)) - 1))
    THEN Raise(st, "FileNotFoundError")
    ELSE [st EXCEPT
            !.tree = WithNode(@, normpath(path),
                        File(IF mode = "ab" /\ isfile(st.tree, path)
                             THEN st.tree[normpath(path)].content \o content
                             ELSE content)),
            !.writes = Append(@, [path |-> normpath(path), mode |-> mode,
                                  replaced |-> isfile(st.tree, path)])]

\* d[key] = value on a dictionary
DictSet(d, key, value) ==
    IF \E i \in 1..Len(d) : d[i][1] = key
    THEN [i \in 1..Len(d) |-> IF d[i][1] = key THEN <<key, value>> ELSE d[i]]
    ELSE Append(d, <<key, value>>)

\* os.path.relpath(path, start) for a path at or below start
relpath(path, start) ==
    IF normpath(path) = normpath(start) THEN DOT
    ELSE bytes_join(SubSeq(normpath(path), Len(normpath(start)) + 1, Len(normpath(path))),
                    SLASH)

\* the order a set of tags is iterated in (the documents of the modelled
\* trees yield at most one tag each, so there is one order)
TagOrder(tags) == CHOOSE order \in Orders(tags) : TRUE

\* for tag in dst_file_tags: g_dm_tags[tag] = tag_value
RECURSIVE RegisterTags(_, _, _, _)
RegisterTags(dm_tags, tag_order, k, tag_value) ==
    IF k > Len(tag_order) THEN dm_tags
    ELSE RegisterTags(DictSet(dm_tags, tag_order[k], tag_value), tag_order, k + 1, tag_value)

\* copy_file, and what beautify does with the tags it returns
copy_file(st, env, src, dst, resource_dir_names, tag_value) ==
    IF exists(st.tree, dst) /\ ~env.force THEN Raise(st, "already exists")
    ELSE CHOOSE out \in
            UNION { { IF Raised(written) THEN written
                      ELSE [written EXCEPT !.g_dm_tags =
                               RegisterTags(@, TagOrder(repaired.tags), 1, tag_value)] :
                        written \in { WriteFile(st, dst,
                                        Document(repaired.title, repaired.slug, repaired.weight,
                                                 TagOrder(repaired.tags), repaired.body),
                                        "wb") } } :
                    repaired \in { repair_content(env.src[src].content, src[Len(src)],
                                                  resource_dir_names) } } : TRUE

\* shutil.copy(src, dst): into dst when it is a directory, else onto dst
shutil_copy(st, env, src, dst) ==
    WriteFile(st, IF isdir(st.tree, dst) THEN Append(dst, src[Len(src)]) ELSE dst,
              env.src[src].content, "wb")

\* the names extract_resource_dir_names keeps, before they are repaired
ResourceDir(name, dir_names) == name \in dir_names \/ EndsWith(name, MD)

extract_resource_dir_names(file_or_dir_names, dir_names) ==
    LET kept == { k \in 1..Len(file_or_dir_names) :
                    ResourceDir(file_or_dir_names[k], dir_names) }
    IN  [j \in 1..Cardinality(kept) |->
            CHOOSE out \in
                { repair_url_part(repair_name(
                      IF name \in dir_names THEN name ELSE removesuffix(name, MD))) :
                    name \in { file_or_dir_names[
                                 CHOOSE k \in kept :
                                    Cardinality({ i \in kept : i <= k }) = j] } } : TRUE]

\* sorted(names, key=lambda name_: 0 if os.path.isdir(name_) else 1): the
\* sort is stable, and the key looks the bare name up in the working directory
SortedNames(names, dir_names) ==
    LET first == { k \in 1..Len(names) : names[k] \in dir_names }
        rest  == { k \in 1..Len(names) : names[k] \notin dir_names }
    IN  [j \in 1..Len(names) |->
            IF j <= Cardinality(first)
            THEN names[CHOOSE k \in first : Cardinality({ i \in first : i <= k }) = j]
            ELSE names[CHOOSE k \in rest :
                          Cardinality({ i \in rest : i <= k }) = j - Cardinality(first)]]

\* lines 337-349, for one of the two directories
EnterDirectory(st, env, dir) ==
    IF ~isdir(st.tree, dir) THEN mkdir(st, dir)
    ELSE IF ~env.force THEN Raise(st, "already exists")
    ELSE st

DM_PREFIX == <<"d", "m", "-">>

\* (a variant that takes a directory at any depth below 1 as a module)
IsDmDir_anyDepth(markdown_dir, depth) ==
    depth >= 2 /\ StartsWithAt(markdown_dir[Len(markdown_dir)], 1, DM_PREFIX)

IsDmDir(markdown_dir, depth) ==
    depth = 2 /\ StartsWithAt(markdown_dir[Len(markdown_dir)], 1, DM_PREFIX)

\* the markdown branch of the loop body
CopyMarkdown(st, env, path, markdown_repaired_dir, resource_dir_names, base_markdown_dir) ==
    CHOOSE out \in
        { IF Raised(made) THEN made
          ELSE copy_file(made, env, path, Append(markdown_repaired_dir, INDEX_MD),
                         resource_dir_names,
                         relpath(markdown_repaired_dir, base_markdown_dir)) :
            made \in { IF ~isdir(st.tree, markdown_repaired_dir)
                       THEN mkdir(st, markdown_repaired_dir) ELSE st } } : TRUE

RECURSIVE beautify(_, _, _, _, _, _, _)

\* the walker looks at one entry of the input directory (verb(...) of the
\* three branches), with the resource_dir_names of its directory at hand
Visit(st, path, kind, resource_dir_names) ==
    [st EXCEPT !.visited = Append(@, [path |-> path, kind |-> kind,
                                      resource_dir_names |-> resource_dir_names])]

\* the body of the for loop of beautify, for one name
BeautifyName(st, env, base_markdown_dir, input_dir, markdown_dir, static_dir, depth, name, resource_dir_names) ==
    CHOOSE out \in
        { IF isdir(env.src, Append(input_dir, name))
          THEN beautify(Visit(st, Append(input_dir, name), "directory", resource_dir_names),
                        env, base_markdown_dir, Append(input_dir, name),
                        IF depth # 0 THEN Append(markdown_dir, repaired_name) ELSE markdown_dir,
                        IF depth # 0 THEN Append(static_dir, repaired_name) ELSE static_dir,
                        depth + 1)
          ELSE IF EndsWith(name, MD)
          THEN CopyMarkdown(Visit(st, Append(input_dir, name), "markdown", resource_dir_names),
                            env, Append(input_dir, name),
                            IF depth # 0 THEN Append(markdown_dir, repaired_name)
                            ELSE markdown_dir,
                            resource_dir_names, base_markdown_dir)
          ELSE shutil_copy(Visit(st, Append(input_dir, name), "resource", resource_dir_names),
                           env, Append(input_dir, name),
                           IF depth # 0 THEN Append(static_dir, repaired_name)
                           ELSE static_dir) :
            repaired_name \in { repair_url_part(removesuffix(repair_name(name), MD)) } } : TRUE

\* the for loop of beautify, from the k-th name on; an exception ends it
RECURSIVE BeautifyLoop(_, _, _, _, _, _, _, _, _, _)
BeautifyLoop(st, env, base_markdown_dir, input_dir, markdown_dir, static_dir, depth, names, k, resource_dir_names) ==
    IF k > Len(names) \/ Raised(st) THEN st
    ELSE CHOOSE out \in
            { BeautifyLoop(next, env, base_markdown_dir, input_dir, markdown_dir, static_dir,
                           depth, names, k + 1, resource_dir_names) :
                next \in { BeautifyName(st, env, base_markdown_dir, input_dir, markdown_dir,
                                        static_dir, depth, names[k], resource_dir_names) } } : TRUE

beautify(st, env, base_markdown_dir, input_dir, markdown_dir, static_dir, depth) ==
    CHOOSE out \in
        UNION { UNION { {
            IF Raised(entered) THEN entered
            ELSE CHOOSE done \in
                { IF ~Raised(looped) /\ IsDmDir(markdown_dir, depth)
                  THEN [looped EXCEPT !.g_all_dm_tags =
                           DictSet(@, markdown_dir[Len(markdown_dir)], looped.g_dm_tags)]
                  ELSE looped :
                    looped \in { BeautifyLoop(entered, env, base_markdown_dir, input_dir,
                                     markdown_dir, static_dir, depth,
                                     SortedNames(names, env.cwd_dirs), 1,
                                     extract_resource_dir_names(names, env.cwd_dirs)) } } : TRUE :
              names \in { Listed(env.src, input_dir, env.listing) } } :
            entered \in { IF Raised(made) THEN made
                          ELSE EnterDirectory(made, env, static_dir) } } :
          made \in { EnterDirectory(IF IsDmDir(markdown_dir, depth)
                                    THEN [st EXCEPT !.g_dm_tags = <<>>] ELSE st,
                                    env, markdown_dir) } } : TRUE

\* quote_plus of urllib.parse
RECURSIVE quote_plus(_)
quote_plus(bs) ==
    IF bs = <<>> THEN <<>>
    ELSE (IF Head(bs) = " " THEN <<"+">>
          ELSE IF Head(bs) \in QuoteSafe \ {"/"} THEN <<Head(bs)>>
          ELSE <<"%">> \o ByteHex[Head(bs)]) \o quote_plus(Tail(bs))

\* the lines of the tags section, from the k-th tag on
RECURSIVE TagLines(_, _)
TagLines(tags, k) ==
    IF k > Len(tags) THEN <<>>
    ELSE str(k) \o <<".", " ", "[">> \o tags[k][1] \o <<"]", "(", "/">> \o tags[k][2]
         \o <<"#">> \o quote_plus(tags[k][1]) \o <<")", "\n">> \o TagLines(tags, k + 1)

write_dm_tags_section(st, markdown_dir, tags) ==
    WriteFile(st, Append(markdown_dir, INDEX_MD),
              <<"\n", "\n", "#", "#", " ", "C", "r", "i", "t", "xc3", "xa8", "r", "e", "s",
                "\n", "\n">> \o TagLines(tags, 1),
              "ab")

\* "write tags": the loop of main over g_all_dm_tags, from the k-th entry on
RECURSIVE WriteTagSections(_, _)
WriteTagSections(st, k) ==
    IF k > Len(st.g_all_dm_tags) \/ Raised(st) THEN st
    ELSE CHOOSE out \in
            { WriteTagSections(next, k + 1) :
                next \in { write_dm_tags_section(st, <<CONTENT, st.g_all_dm_tags[k][1]>>,
                                                 st.g_all_dm_tags[k][2]) } } : TRUE

(***************************************************************************)
(* Runs of main on a source directory (--source): the source trees, the    *)
(* hugo directory before the run, and the arguments --force and --dm.      *)
(***************************************************************************)
A_MD == <<"A", ".", "m", "d">>
B_MD == <<"B", ".", "m", "d">>
UPPER_B == <<"B">>
IMG == <<"i", "m", "g", ".", "p", "n", "g">>
IMAGE_BYTES == <<"P", "N", "G">>

\* root/A.md, root/B/B.md, root/B/img.png, where A.md links to B
SourceLinked ==
    TreeOf({ << <<>>, Directory >>,
             << <<A_MD>>, File(<<"#", " ", "A", "\n", "[", "B", "]", "(", "B", "/", "B",
                                 ".", "m", "d", ")", "\n">>) >>,
             << <<UPPER_B>>, Directory >>,
             << <<UPPER_B, B_MD>>, File(<<"#", " ", "B", "\n", "x", "\n">>) >>,
             << <<UPPER_B, IMG>>, File(IMAGE_BYTES) >> })

\* the same tree inside the directory root of an archive
ROOT == <<"r", "o", "o", "t">>

SourceArchive ==
    TreeOf({ << <<>>, Directory >>,
             << <<ROOT>>, Directory >>,
             << <<ROOT, A_MD>>, File(<<"#", " ", "A", "\n", "[", "B", "]", "(", "B", "/", "B",
                                       ".", "m", "d", ")", "\n">>) >>,
             << <<ROOT, UPPER_B>>, Directory >>,
             << <<ROOT, UPPER_B, B_MD>>, File(<<"#", " ", "B", "\n", "x", "\n">>) >>,
             << <<ROOT, UPPER_B, IMG>>, File(IMAGE_BYTES) >> })

\* one document and two images whose names differ in case only
SourceImages ==
    TreeOf({ << <<>>, Directory >>,
             << <<A_MD>>, File(<<"#", " ", "A", "\n">>) >>,
             << << <<"X", ".", "p", "n", "g">> >>, File(<<"1">>) >>,
             << << <<"x", ".", "p", "n", "g">> >>, File(<<"2">>) >> })

\* two documents whose names differ in case only
SourceDocuments ==
    TreeOf({ << <<>>, Directory >>,
             << <<A_MD>>, File(<<"#", " ", "A", "\n">>) >>,
             << << <<"a", ".", "m", "d">> >>, File(<<"#", " ", "a", "\n">>) >> })

\* a page and the directory of its sub-page, as an export has them
SourcePage ==
    TreeOf({ << <<>>, Directory >>,
             << <<B_MD>>, File(<<"#", " ", "B", "\n", "[", "C", "]", "(", "B", "/", "C",
                                 ".", "m", "d", ")", "\n">>) >>,
             << <<UPPER_B>>, Directory >>,
             << << UPPER_B, <<"C", ".", "m", "d">> >>,
                File(<<"w", "e", "i", "g", "h", "t", ":", " ", "9", "9", "\n">>) >> })

\* a module directory with a document that has a crit marker
SourceModule ==
    TreeOf({ << <<>>, Directory >>,
             << << <<"d", "m", "-", "1", ".", "m", "d">> >>,
                File(<<"#", " ", "M", "\n", "[", "P", "]", "(", "d", "m", "-", "1", "/", "P",
                       ".", "m", "d", ")", "\n">>) >>,
             << << <<"d", "m", "-", "1">> >>, Directory >>,
             << << <<"d", "m", "-", "1">>, <<"P", ".", "m", "d">> >>,
                File(<<"#", " ", "P", "\n", "~", "~", "c", "r", "i", "t", " ", "a", "b",
                       "~", "~", "\n">>) >> })

DM_1 == <<"d", "m", "-", "1">>
DM_2 == <<"d", "m", "-", "2">>
P_MD == <<"P", ".", "m", "d">>

\* a document with one crit marker
Marked(title, crit) ==
    <<"#", " ", title, "\n", "~", "~", "c", "r", "i", "t", " ">> \o crit \o <<"~", "~", "\n">>

\* two module directories, one with a module directory inside it; the tag
\* ab comes from two documents, and the document at the root has a tag too
SourceModules ==
    TreeOf({ << <<>>, Directory >>,
             << <<DM_1 \o MD>>, File(Marked("M", <<"z", "z">>)) >>,
             << <<DM_1>>, Directory >>,
             << <<DM_1, P_MD>>, File(Marked("P", <<"a", "b">>)) >>,
             << <<DM_1, DM_2>>, Directory >>,
             << <<DM_1, DM_2, P_MD>>, File(Marked("Q", <<"a", "b">>)) >>,
             << <<DM_2>>, Directory >>,
             << <<DM_2, P_MD>>, File(Marked("R", <<"c", "d">>)) >> })

\* one document and one image, no directory
SourceFlat ==
    TreeOf({ << <<>>, Directory >>,
             << <<A_MD>>, File(<<"#", " ", "A", "\n">>) >>,
             << <<IMG>>, File(IMAGE_BYTES) >> })

SourceTrees ==
    { SourceLinked, SourceArchive, SourceImages, SourceDocuments, SourcePage, SourceModule,
      SourceModules, SourceFlat }

\* the hugo directory: empty, with both output directories, or with them
\* and files of an earlier run
HugoTrees ==
    { TreeOf({ << <<>>, Directory >> }),
      TreeOf({ << <<>>, Directory >>, << <<CONTENT>>, Directory >>,
               << <<STATIC>>, Directory >> }),
      TreeOf({ << <<>>, Directory >>, << <<CONTENT>>, Directory >>,
               << <<STATIC>>, Directory >>,
               << <<CONTENT, NAME_A>>, Directory >>,
               << <<CONTENT, NAME_A, INDEX_MD>>, File(<<"o", "l", "d", "\n">>) >>,
               << << STATIC, <<"x", ".", "p", "n", "g">> >>, File(<<"0">>) >> }) }

\* every name of a tree
NamesOf(tree) == { p[Len(p)] : p \in { q \in DOMAIN tree : q # <<>> } }

RunStart ==
    /\ src_fs \in SourceTrees
    /\ fs \in HugoTrees
    /\ force \in BOOLEAN
    /\ dm \in BOOLEAN
    /\ cwd_dirs \in { {}, DirNamesBelow(src_fs, <<>>) }
    /\ error = "none"
    /\ writes = <<>>
    /\ g_dm_tags = <<>>
    /\ g_all_dm_tags = <<>>
    /\ visited = <<>>
    /\ fs_before = fs
    /\ g_exit_status = 0
    /\ log = <<>>
    /\ runs = 0
    /\ run_pc = "main"

WalkIdle ==
    /\ src_fs = <<>>
    /\ force = FALSE
    /\ dm = FALSE
    /\ cwd_dirs = {}
    /\ error = "none"
    /\ writes = <<>>
    /\ g_dm_tags = <<>>
    /\ g_all_dm_tags = <<>>
    /\ visited = <<>>

\* the markdown files at the root of the input directory (main, --dm)
dm_files(src) == { f \in listdir(src, <<>>) : EndsWith(f, MD) /\ isfile(src, <<f>>) }

\* "main function": the check of --dm and the call of beautify; os.listdir
\* may give the names of a directory in any order
Beautify ==
    /\ run_pc = "main"
    /\ \E listing \in Orders(NamesOf(src_fs)) :
       \E out \in { IF dm /\ Cardinality(dm_files(src_fs)) # 1
                    THEN [tree |-> fs, error |-> "not a DM export", writes |-> writes,
                          g_dm_tags |-> g_dm_tags, g_all_dm_tags |-> g_all_dm_tags,
                          visited |-> visited]
                    ELSE beautify([tree |-> fs, error |-> error, writes |-> writes,
                                   g_dm_tags |-> g_dm_tags, g_all_dm_tags |-> g_all_dm_tags,
                          visited |-> visited],
                                  [src |-> src_fs, force |-> force, listing |-> listing,
                                   cwd_dirs |-> cwd_dirs],
                                  <<CONTENT>>, <<>>, <<CONTENT>>, <<STATIC>>,
                                  IF dm THEN 1 ELSE 0) } :
         /\ fs' = out.tree
         /\ error' = out.error
         /\ writes' = out.writes
         /\ g_dm_tags' = out.g_dm_tags
         /\ g_all_dm_tags' = out.g_all_dm_tags
         /\ visited' = out.visited
         /\ run_pc' = IF Raised(out) THEN "failed" ELSE "tags"
    /\ UNCHANGED <<src_fs, force, dm, cwd_dirs, fs_before, g_exit_status, log, runs>>
    /\ UNCHANGED notRunVars

\* "write tags"
WriteTags ==
    /\ run_pc = "tags"
    /\ \E out \in { WriteTagSections([tree |-> fs, error |-> error, writes |-> writes,
                                      g_dm_tags |-> g_dm_tags,
                                      g_all_dm_tags |-> g_all_dm_tags,
                                      visited |-> visited], 1) } :
         /\ fs' = out.tree
         /\ error' = out.error
         /\ writes' = out.writes
         /\ run_pc' = IF Raised(out) THEN "failed" ELSE "main_weights"
    /\ UNCHANGED <<src_fs, force, dm, cwd_dirs, g_dm_tags, g_all_dm_tags, visited,
                   fs_before, g_exit_status, log, runs>>
    /\ UNCHANGED notRunVars

\* set_weights called without waiting for the walker
MainSetWeights_early ==
    /\ run_pc \in {"main", "main_weights"}
    /\ \E listing \in Orders(DirNamesBelow(fs, <<CONTENT>>)) :
       \E out \in { set_weights([tree |-> fs, exit_status |-> g_exit_status, log |-> log],
                                <<CONTENT>>, 0, listing) } :
         /\ fs' = out.tree
         /\ g_exit_status' = out.exit_status
         /\ log' = out.log
    /\ fs_before' = fs
    /\ runs' = runs + 1
    /\ run_pc' = "done"
    /\ UNCHANGED <<src_fs, force, dm, cwd_dirs, error, writes, g_dm_tags, g_all_dm_tags,
                   visited>>
    /\ UNCHANGED notRunVars

\* "write weights", and the return of the exit status
MainSetWeights ==
    /\ run_pc = "main_weights"
    /\ \E listing \in Orders(DirNamesBelow(fs, <<CONTENT>>)) :
       \E out \in { set_weights([tree |-> fs, exit_status |-> g_exit_status, log |-> log],
                                <<CONTENT>>, 0, listing) } :
         /\ fs' = out.tree
         /\ g_exit_status' = out.exit_status
         /\ log' = out.log
    /\ fs_before' = fs
    /\ runs' = runs + 1
    /\ run_pc' = "done"
    /\ UNCHANGED <<src_fs, force, dm, cwd_dirs, error, writes, g_dm_tags, g_all_dm_tags,
                   visited>>
    /\ UNCHANGED notRunVars

(***************************************************************************)
(* Specifications                                                          *)
(***************************************************************************)
InitUrl == UrlStart /\ LinkIdle /\ ContentIdle /\ WeightsIdle /\ WalkIdle /\ NameIdle

SpecUrl == InitUrl /\ [][RepairUrlPart]_vars

\* one call of repair_link, or one call of repair_content
InitRepair ==
    /\ UrlIdle
    /\ WeightsIdle
    /\ WalkIdle
    /\ NameIdle
    /\ \/ LinkStart /\ ContentIdle
       \/ LinkIdle /\ ContentStart

NextRepair == RepairLink \/ RepairContent \/ RepairContentAgain

SpecRepair == InitRepair /\ [][NextRepair]_vars

\* calls of set_weights on an output tree
InitWeights == UrlIdle /\ LinkIdle /\ ContentIdle /\ WeightsStart /\ WalkIdle /\ NameIdle

SpecWeights == InitWeights /\ [][SetWeights]_vars

\* calls of set_weights on an output tree, the wide tree included
InitSiblings ==
    /\ UrlIdle /\ LinkIdle /\ ContentIdle /\ WalkIdle /\ NameIdle
    /\ (WeightsStart \/ WideStart)

NextSiblings == SetWeights \/ SetWeightsWide

SpecSiblings == InitSiblings /\ [][NextSiblings]_vars

\* runs of main
InitRun == UrlIdle /\ LinkIdle /\ ContentIdle /\ RunStart /\ NameIdle

\* calls of repair_name
InitName ==
    UrlIdle /\ LinkIdle /\ ContentIdle /\ WeightsIdle /\ WalkIdle /\ NameStart

SpecName == InitName /\ [][RepairName]_vars

NextRun == Beautify \/ WriteTags \/ MainSetWeights

SpecRun == InitRun /\ [][NextRun]_vars

(***************************************************************************)
(* Claims                                                                  *)
(***************************************************************************)
\* C1: repair_url_part is idempotent: a second application changes nothing
C1_UrlPartIdempotent ==
    url_calls >= 2 => url_part = url_prev

\* the segments repair_link works on: prefix and target, split and repaired
LinkSegments ==
    LET parts == link_prefix \o bytes_split(removeprefix(DropMdSuffix(link_url, link_md), SLASH), "/")
    IN  [i \in 1..Len(parts) |-> repair_url_part(parts[i])]

\* a link pass left the absolute links it matched as they were: the bytes at
\* the place of the k-th match in the output of the pass are the matched bytes
AbsoluteLinksKept(pass) ==
    \A k \in 1..Len(pass.matches) :
        LET m == pass.matches[k]
        IN  (urlparse(m.url).scheme # <<>> /\ urlparse(m.url).netloc # <<>>)
                => SubSeq(pass.content, m.start + pass.offsets[k],
                          m.end - 1 + pass.offsets[k])
                     = SubSeq(pass.before, m.start, m.end - 1)

\* C2: a link whose target has a scheme and an authority is returned
\* byte for byte, in either mode and with any prefixes; so both link passes
\* of repair_content leave every such link as it was
C2_AbsoluteLinkUnchanged ==
    /\ (link_pc = "done" /\ urlparse(link_url).scheme # <<>> /\ urlparse(link_url).netloc # <<>>)
          => link_out = <<"[">> \o link_name \o <<"]", "(">> \o link_url \o <<")">>
    /\ cr_pc = "done"
          => /\ AbsoluteLinksKept(cr_out.resource_pass)
             /\ AbsoluteLinksKept(cr_out.md_pass)

C2_Witness ==
    /\ link_pc = "done"
    /\ urlparse(link_url).scheme # <<>> /\ urlparse(link_url).netloc # <<>>
    /\ link_parents # <<>> /\ link_prefix # <<>> /\ ~link_md

\* C3: when the first repaired segment is the document's own repaired
\* basename, exactly that segment is dropped, the others are kept in order,
\* no ".." is inserted and the display name is kept
C3_SelfPrefixDropped ==
    (link_pc = "done" /\ NoSchemeOrNetloc(link_url) /\ LinkSegments[1] = link_old)
        => link_out = <<"[">> \o link_name \o <<"]", "(">>
                        \o bytes_join(Tail(LinkSegments), SLASH) \o <<")">>

\* the dropped segment is also a parent prefix and the next one is ".."
C3_Witness ==
    /\ link_pc = "done" /\ NoSchemeOrNetloc(link_url)
    /\ Len(LinkSegments) >= 3
    /\ LinkSegments[1] = link_old
    /\ InList(link_old, link_parents)
    /\ LinkSegments[2] = DOTDOT
    /\ link_prefix = <<>>

\* C4: when the first repaired segment is not the own basename, one ".." is
\* put in front exactly when that segment is ".." or a parent prefix, and
\* the segments are otherwise emitted as they are
C4_ParentMarker ==
    (link_pc = "done" /\ NoSchemeOrNetloc(link_url) /\ LinkSegments[1] # link_old)
        => LET marked == LinkSegments[1] = DOTDOT \/ InList(LinkSegments[1], link_parents)
               parts  == IF marked THEN <<DOTDOT>> \o LinkSegments ELSE LinkSegments
           IN  link_out = <<"[">> \o link_name \o <<"]", "(">>
                            \o bytes_join(parts, SLASH) \o <<")">>

C4_Witness ==
    /\ link_pc = "done" /\ NoSchemeOrNetloc(link_url)
    /\ LinkSegments[1] # link_old
    /\ LinkSegments[1] # DOTDOT
    /\ InList(LinkSegments[1], link_parents)
    /\ link_prefix = <<>>

\* the end of the first line of the document: the position of its "\n", or
\* one past the last byte
FirstLineEnd ==
    IF NextIn(cr_content, 1, {"\n"}) = 0 THEN Len(cr_content) + 1
    ELSE NextIn(cr_content, 1, {"\n"})

\* the first line without its terminator (LF or CRLF)
FirstLine ==
    removesuffix(SubSeq(cr_content, 1, FirstLineEnd - 1), <<"\r">>)

\* the document starts with a level-1 heading: "#", spaces, a text
StartsWithHeading ==
    /\ StartsWithAt(FirstLine, 1, <<"#", " ">>)
    /\ NextNotIn(FirstLine, 2, {" "}) <= Len(FirstLine)

HeadingText == SubSeq(FirstLine, NextNotIn(FirstLine, 2, {" "}), Len(FirstLine))

\* C5: the title is the text of a level-1 heading at the very start of the
\* document, without its line terminator (LF or CRLF), and that line is
\* taken out of the body; without such a heading the title is the basename of
\* the source without its extension and the body is left intact
C5_TitleFromLeadingHeading ==
    cr_pc = "done" =>
        IF StartsWithHeading
        THEN /\ cr_out.title = HeadingText
             /\ cr_out.resource_pass.before
                    = SubSeq(cr_content, FirstLineEnd + 1, Len(cr_content))
        ELSE /\ cr_out.title = removesuffix(basename(cr_src), MD)
             /\ cr_out.resource_pass.before = cr_content

\* the payload of a marker: its cleaned crit group after the word "crit"
MarkerPayload(crit_group) ==
    bytes_strip(SubSeq(CleanCritGroup(crit_group), Len(CRIT) + 1,
                       Len(CleanCritGroup(crit_group))))

\* C6: every matched crit marker yields at least one tag and is replaced by
\* the short-codes of its tags; a payload without a further "crit" is the
\* one tag of its marker
C6_MarkerYieldsTag ==
    cr_pc = "done" =>
        \A k \in 1..Len(cr_out.crit_pass.matches) :
            LET crits == cr_out.crit_pass.crits[k]
                payload == MarkerPayload(cr_out.crit_pass.matches[k].crit_group)
            IN  /\ crits # <<>>
                /\ \A j \in 1..Len(crits) : crits[j] \in cr_out.tags
                /\ cr_out.crit_pass.repls[k]
                      = bytes_join([j \in 1..Len(crits) |-> ShortCode(crits[j])], <<"\n">>)
                /\ NextOcc(payload, 1, CRIT) = 0 => crits = <<payload>>

\* C7: a second call of set_weights on the tree the first call has weighted
\* changes the bytes of no document
C7_SecondRunChangesNothing ==
    runs >= 2 => fs = fs_before

\* the directories set_weights reads the index document of
WeightedDirs(tree) ==
    { p \in DOMAIN tree : Len(p) >= 2 /\ p[1] = CONTENT /\ tree[p].dir }

\* the index document of a child that a directory's index links to is missing
MissingTarget(tree) ==
    \E d \in WeightedDirs(tree) :
        /\ isfile(tree, Append(d, INDEX_MD))
        /\ \E order \in { link_order_from_index_file(tree, Append(d, INDEX_MD), d) } :
              \E k \in 1..Len(order) : ~isfile(tree, d \o <<order[k], INDEX_MD>>)

MissingIndex(tree) ==
    \E d \in WeightedDirs(tree) : ~isfile(tree, Append(d, INDEX_MD))

C9_NoOverwriteWithoutForce ==
    (~force /\ run_pc \in {"tags", "main_weights", "done", "failed"})
        => \A k \in 1..Len(writes) : writes[k].mode = "wb" => ~writes[k].replaced

\* the weight in the metadata header of a document is 1
WeightIsOne(content) ==
    \E i \in 1..Len(content) :
        /\ StartsWithAt(content, i, <<"\n">> \o WEIGHT_TAG \o <<"1", "\n">>)

\* C10: a run from depth 0 on root/A.md, root/B/B.md, root/B/img.png, where
\* A.md links to B, ends with content/a/_index.md, with content/b/_index.md
\* whose weight is 1, and with static/b/img.png holding the bytes of the image.
C10_EndToEnd ==
    (src_fs \in {SourceLinked, SourceArchive} /\ ~dm /\ run_pc \in {"done", "failed"})
        => /\ isfile(fs, <<CONTENT, NAME_A, INDEX_MD>>)
           /\ isfile(fs, <<CONTENT, NAME_B, INDEX_MD>>)
           /\ WeightIsOne(fs[<<CONTENT, NAME_B, INDEX_MD>>].content)
           /\ isfile(fs, <<STATIC, NAME_B, IMG>>)
           /\ fs[<<STATIC, NAME_B, IMG>>].content = IMAGE_BYTES

\* the hexadecimal digits of a hash token
HexChar(c) == c \in Digits \cup {"a", "b", "c", "d", "e", "f"}

\* name = P + " " + H + E, for H of 32 lowercase hexadecimal characters
HasHashToken(n, E) ==
    /\ EndsWith(n, E)
    /\ Len(n) - Len(E) > HashLen
    /\ n[Len(n) - Len(E) - HashLen] = " "
    /\ \A k \in 1..HashLen : HexChar(n[Len(n) - Len(E) - HashLen + k])

\* the accent and quote fold-ups of a name
Folded(n) == ApplySubstitutions(n, NameSubstitutions)

\* C11: repair_name turns P + " " + H + E (H: 32 lowercase hexadecimal
\* characters, E: empty or ".md") into the folded P followed by E, and a name
\* without such a trailing token is changed by the fold-ups only.
C11_HashTokenRemoved ==
    name_pc = "done" =>
        /\ \A E \in { <<>>, MD } :
              HasHashToken(name_in, E) =>
                 name_out = Folded(SubSeq(name_in, 1, Len(name_in) - Len(E) - HashLen - 1)) \o E
        /\ (~HasHashToken(name_in, <<>>) /\ ~HasHashToken(name_in, MD)) => name_out = Folded(name_in)

\* the files of a tree
FilesOf(tree) == { q \in DOMAIN tree : ~tree[q].dir }

\* the copies the walker has made (copy_file and shutil.copy open with "wb")
WalkerWrites == { k \in 1..Len(writes) : writes[k].mode = "wb" }

\* C12: a step of the weight assigner (it reads the index documents, writes
\* weights, logs and sets the exit status) starts only when the walker has
\* ended without error and has written every document and copied every
\* resource of the source tree, and it is no step of the walker; once the
\* weight assigner has run, the walker writes nothing.
C12_WalkerBeforeWeights ==
    [][ /\ (runs' # runs \/ log' # log \/ g_exit_status' # g_exit_status)
            => /\ error = "none"
               /\ Cardinality(WalkerWrites) = Cardinality(FilesOf(src_fs))
               /\ writes' = writes
        /\ runs >= 1 => writes' = writes ]_vars

C12_Witness ==
    /\ run_pc = "done"
    /\ runs = 1
    /\ fs # fs_before
    /\ Cardinality(WalkerWrites) >= 2

\* the link targets without a slash in the index document of directory d
SlashFreeTargets(tree, d) ==
    [k \in 1..Len(DirLinks(tree[Append(d, INDEX_MD)].content, 1)) |->
        DirLinks(tree[Append(d, INDEX_MD)].content, 1)[k].url]

\* t names a directory that is an immediate child of d
IsChildDir(tree, d, t) ==
    /\ t \notin { DOT, DOTDOT }
    /\ Append(d, t) \in DOMAIN tree
    /\ tree[Append(d, t)].dir

\* where the children linked from d's index document occur first
FirstChildLinks(tree, d) ==
    { k \in 1..Len(SlashFreeTargets(tree, d)) :
        /\ IsChildDir(tree, d, SlashFreeTargets(tree, d)[k])
        /\ \A j \in 1..(k - 1) : SlashFreeTargets(tree, d)[j] # SlashFreeTargets(tree, d)[k] }

\* the 1-based position of child t among the children linked from d's index
LinkPosition(tree, d, t) ==
    Cardinality({ k \in FirstChildLinks(tree, d) :
                    \E i \in FirstChildLinks(tree, d) :
                        SlashFreeTargets(tree, d)[i] = t /\ k <= i })

\* the weights the assigner handed out while it worked on directory d
WeightsFrom(d) ==
    { log[r].weight : r \in { k \in 1..Len(log) :
                                /\ log[k].event = "setting weight"
                                /\ SubSeq(log[k].path, 1, Len(log[k].path) - 1) = d } }

\* C13: for every directory below the root, each weight the assigner hands
\* out from the directory's index document goes to a linked child directory
\* and is the 1-based position of the child's first link among the slash-free
\* link targets that are existing subdirectories, duplicates ignored; the
\* weights from one index document are 1..k for its k distinct linked children.
C13_WeightIsLinkPosition ==
    runs = 1 =>
        /\ \A r \in 1..Len(log) :
              log[r].event = "setting weight" =>
                 /\ IsChildDir(fs, SubSeq(log[r].path, 1, Len(log[r].path) - 1),
                               log[r].path[Len(log[r].path)])
                 /\ log[r].weight =
                       LinkPosition(fs, SubSeq(log[r].path, 1, Len(log[r].path) - 1),
                                    log[r].path[Len(log[r].path)])
        /\ \A d \in WeightedDirs(fs) :
              isfile(fs, Append(d, INDEX_MD)) =>
                 WeightsFrom(d) = 1..Cardinality(FirstChildLinks(fs, d))

\* C14: while it works on a directory, the assigner writes a weight only
\* into the index document of an immediate child directory of it: never,
\* for the targets "." and ".." either, into the directory's own index
\* document, into that of its parent, or into a file elsewhere.
C14_WritesOnlyIntoChildren ==
    \A r \in 1..Len(log) :
        log[r].event = "updated weight" =>
            /\ log[r].path[Len(log[r].path)] = INDEX_MD
            /\ IsChildDir(fs, SubSeq(log[r].path, 1, Len(log[r].path) - 2),
                          log[r].path[Len(log[r].path) - 1])

\* the snapshot with the span of every match from the k-th on replaced by
\* its replacement, from position pos of the snapshot on
RECURSIVE Spliced(_, _, _, _, _)
Spliced(snapshot, matches, repls, k, pos) ==
    IF k > Len(matches) THEN SubSeq(snapshot, pos, Len(snapshot))
    ELSE SubSeq(snapshot, pos, matches[k].start - 1) \o repls[k]
            \o Spliced(snapshot, matches, repls, k + 1, matches[k].end)

\* the matches of a pass do not overlap and come in increasing position
InOrder(matches) ==
    \A k \in 1..Len(matches) :
        /\ matches[k].start <= matches[k].end
        /\ k > 1 => matches[k - 1].end <= matches[k].start

PassSpliced(pass) ==
    InOrder(pass.matches)
        => pass.content = Spliced(pass.before, pass.matches, pass.repls, 1, 1)

\* C15: in each of the three passes of repair_content, where the matches are
\* found on a snapshot of the content and applied one after another with the
\* running offset, the content after the pass is the snapshot with every
\* matched span replaced by its replacement and every other span unchanged.
C15_OffsetDiscipline ==
    cr_pc = "done" =>
        /\ PassSpliced(cr_out.resource_pass)
        /\ PassSpliced(cr_out.md_pass)
        /\ PassSpliced(cr_out.crit_pass)

\* a pass with two matches, the first replaced by bytes of another length
C15_Witness ==
    /\ cr_pc = "done"
    /\ \E pass \in { cr_out.resource_pass, cr_out.md_pass, cr_out.crit_pass } :
          /\ Len(pass.matches) >= 2
          /\ pass.offsets[2] # 0
          /\ pass.repls[2] # <<>>

\* the directory a source entry is in
ParentOf(path) == SubSeq(path, 1, Len(path) - 1)

\* C16: at every directory level the walker looks at all the directory
\* children of the source directory before any file child, whatever order
\* the listing has and whatever the working directory is.
C16_DirectoriesFirst ==
    \A i, j \in 1..Len(visited) :
        (/\ i < j
         /\ ParentOf(visited[i].path) = ParentOf(visited[j].path))
            => ~(visited[i].kind # "directory" /\ visited[j].kind = "directory")

\* the name repaired as a link prefix: Name Repair, then URL-Part Repair
RepairedPrefix(entry_name) == repair_url_part(repair_name(entry_name))

\* C17: the list of parent prefixes at hand for the documents of a source
\* directory holds the repaired name of every immediate child directory of
\* it and of every immediate markdown file, its extension stripped, whatever
\* the working directory is.
C17_ParentPrefixes ==
    \A i \in 1..Len(visited) :
        visited[i].kind = "markdown" =>
            \A n \in listdir(src_fs, ParentOf(visited[i].path)) :
                /\ isdir(src_fs, Append(ParentOf(visited[i].path), n))
                      => InList(RepairedPrefix(n), visited[i].resource_dir_names)
                /\ (isfile(src_fs, Append(ParentOf(visited[i].path), n)) /\ EndsWith(n, MD))
                      => InList(RepairedPrefix(removesuffix(n, MD)),
                                visited[i].resource_dir_names)

\* the destination name of a source entry
RepairedName(entry_name) == repair_url_part(removesuffix(repair_name(entry_name), MD))

\* the source directories that are module boundaries: the directories that
\* the walker enters at depth 2 and whose destination name has the prefix
ModuleDirs ==
    { p \in DOMAIN src_fs :
        /\ src_fs[p].dir
        /\ Len(p) = (IF dm THEN 1 ELSE 2)
        /\ StartsWithAt(RepairedName(p[Len(p)]), 1, DM_PREFIX) }

\* the documents processed while the walker was inside directory p
DocumentsInside(p) ==
    { i \in 1..Len(visited) :
        /\ visited[i].kind = "markdown"
        /\ Len(visited[i].path) > Len(p)
        /\ SubSeq(visited[i].path, 1, Len(p)) = p }

\* the tags extracted from the i-th entry looked at
TagsOf(i) ==
    repair_content(src_fs[visited[i].path].content,
                   visited[i].path[Len(visited[i].path)],
                   visited[i].resource_dir_names).tags

\* the path of the destination directory of a document, relative to content
RelativeDestination(path) ==
    bytes_join([k \in 1..(Len(path) - (IF dm THEN 0 ELSE 1)) |->
                   RepairedName(path[k + (IF dm THEN 0 ELSE 1)])], SLASH)

\* the entry of module p: each tag of a document inside p, with the
\* destination of the last document inside p that produced it
ExpectedTags(p) ==
    { << t, RelativeDestination(visited[
                CHOOSE i \in DocumentsInside(p) :
                    /\ t \in TagsOf(i)
                    /\ \A j \in DocumentsInside(p) : t \in TagsOf(j) => j <= i].path) >> :
        t \in UNION { TagsOf(i) : i \in DocumentsInside(p) } }

\* the entries of a dictionary as a set
Items(d) == { d[k] : k \in 1..Len(d) }

\* C18: after the traversal the table of modules has one entry per module
\* boundary directory, and the entry of a module holds exactly the tags
\* extracted from the documents processed inside the module, each with the
\* relative path of the last such document that produced it.
C18_TagsScopedToModule ==
    run_pc \in {"tags", "main_weights", "done"} =>
        /\ Len(g_all_dm_tags) = Cardinality(ModuleDirs)
        /\ \A p \in ModuleDirs :
              \E k \in 1..Len(g_all_dm_tags) :
                 /\ g_all_dm_tags[k][1] = RepairedName(p[Len(p)])
                 /\ Items(g_all_dm_tags[k][2]) = ExpectedTags(p)
                 /\ Len(g_all_dm_tags[k][2]) = Cardinality(ExpectedTags(p))

\* two modules, one of them with a tag that two of its documents produced,
\* and a tag that was produced outside both
C18_Witness ==
    /\ run_pc = "tags"
    /\ Len(g_all_dm_tags) = 2
    /\ \E p \in ModuleDirs :
          \E i, j \in DocumentsInside(p) : i # j /\ TagsOf(i) \cap TagsOf(j) # {}
    /\ \E i \in 1..Len(visited) :
          /\ visited[i].kind = "markdown"
          /\ TagsOf(i) # {}
          /\ \A p \in ModuleDirs : i \notin DocumentsInside(p)

\* the bytes that repair_content returned
RepairedBytes ==
    Document(cr_out.title, cr_out.slug, cr_out.weight, cr_tag_order, cr_out.body)

\* C19: a second call of repair_content with the same content, source path
\* and parent prefixes returns the same bytes as the first, the order of
\* the tags in the header included.
C19_RepairDeterministic ==
    [][ (cr_pc = "done" /\ cr_pc' = "again") => RepairedBytes' = RepairedBytes ]_vars

\* the index documents of a tree
IndexDocuments(tree) == { p \in DOMAIN tree : ~tree[p].dir /\ p[Len(p)] = INDEX_MD }

\* where the metadata header of a document ends: the first line --- after
\* the opening one (0 if there is none)
HeaderEnd(content) ==
    IF \E j \in 2..Len(content) : StartsWithAt(content, j, <<"\n", "-", "-", "-", "\n">>)
    THEN CHOOSE j \in 2..Len(content) :
            /\ StartsWithAt(content, j, <<"\n", "-", "-", "-", "\n">>)
            /\ \A i \in 2..(j - 1) : ~StartsWithAt(content, i, <<"\n", "-", "-", "-", "\n">>)
    ELSE 0

\* the header of the document has the line weight: 99
HeaderHasPlaceholder(content) ==
    \E i \in 1..HeaderEnd(content) :
        StartsWithAt(content, i, <<"\n">> \o WEIGHT_TAG \o DEFAULT_WEIGHT \o <<"\n">>)

\* set_weights wrote a weight into the document
Assigned(p) ==
    \E r \in 1..Len(log) : log[r].event = "updated weight" /\ normpath(log[r].path) = p

\* C20: after set_weights has finished, a document that had the placeholder
\* weight in its header still has it if and only if set_weights assigned it
\* no weight.
C20_PlaceholderMarksUnassigned ==
    runs = 1 =>
        \A p \in IndexDocuments(fs_before) :
            HeaderHasPlaceholder(fs_before[p].content)
                => (HeaderHasPlaceholder(fs[p].content) <=> ~Assigned(p))

\* the segment repair_link makes of the link to the entry: the quoted name
\* without the extension, through repair_url_part
LinkSegment(entry_name) == repair_url_part(quote_from_bytes(removesuffix(entry_name, MD)))

\* the name of the destination folder of the entry, from the repaired name
FolderName(repaired_name) == repair_url_part(removesuffix(repaired_name, MD))

\* the slug repair_content writes into the header of the entry's document
SlugOf(entry_name) == unquote_to_bytes(removesuffix(LinkSegment(entry_name), MD))

\* C21: for every source entry name, the segment that repair_link makes of
\* the quoted name equals the name of the destination folder that the walker
\* derives from the repaired name, and equals the slug in the header.
C21_LinksMatchLayout ==
    name_pc = "done" =>
        /\ LinkSegment(name_in) = FolderName(name_out)
        /\ SlugOf(name_in) = FolderName(name_out)

\* no two entries of a directory of the source tree repair to the same name
NoCollisions(src) ==
    \A d \in { q \in DOMAIN src : src[q].dir } :
        \A n1, n2 \in listdir(src, d) :
            RepairedName(n1) = RepairedName(n2) => n1 = n2

\* neither output directory exists
FreshDestination(tree) == ~exists(tree, <<CONTENT>>) /\ ~exists(tree, <<STATIC>>)

\* C22: a run of the walker from depth 0, without the overwrite flag, into a
\* destination where neither output directory exists, on a source tree in
\* which no two entries of a directory repair to the same name, does not end
\* with the error "already exists".
C22_FreshRunCompletes ==
    [][ ( /\ run_pc = "main"
          /\ ~dm
          /\ ~force
          /\ FreshDestination(fs)
          /\ NoCollisions(src_fs) ) => error' # "already exists" ]_vars

=============================================================================
